---- MODULE Spec2Model ----
(***************************************************************************)
(* Model of viur/core/utils.py: the HMAC helpers (hmacSign, hmacVerify),   *)
(* the signed download URL (downloadUrlFor), the deferred-deletion marker  *)
(* (markFileForDeletion) and the mail dispatcher (sendEMail).              *)
(*                                                                         *)
(* Python values are records [t |-> type name, v |-> payload].  Strings    *)
(* are sequences of code points, bytes are sequences of 0..255.            *)
(***************************************************************************)
EXTENDS Integers, Sequences, FiniteSets, TLC

VARIABLES
    hmacKey,      \* conf["viur.file.hmacKey"]
    now,          \* datetime.now(): seconds since 2024-01-01 00:00:00, local time
    token,        \* the most recent downloadUrlFor call: inputs, time, outcome
    again,        \* the latest repetition of that call with the same inputs
    check,        \* the latest verifyDownloadURL call since then: inputs, time, outcome
    signed,       \* the most recent hmacSign / hmacVerify call: inputs, outcome
    entities,     \* the entities of kind "viur-deleted-files" in the datastore
    nextId,       \* the next numeric id the datastore allocates
    calls,        \* per request: position and locals of its markFileForDeletion call
    override,     \* conf["viur.emailRecipientOverride"]
    handler,      \* conf["viur.emailHandler"]
    mail          \* the most recent sendEMail call: inputs, outcome, collaborator calls

vars == <<hmacKey, now, token, again, check, signed, entities, nextId, calls,
          override, handler, mail>>

urlVars  == <<hmacKey, now, token, again, check>>
fileVars == <<entities, nextId, calls>>
mailVars == <<override, handler, mail>>

----------------------------------------------------------------------------
(* Python values *)

PyNone == [t |-> "NoneType", v |-> <<>>]

PyBool(b) == [t |-> "bool", v |-> IF b THEN <<1>> ELSE <<0>>]

PyInt(n) == [t |-> "int", v |-> <<n>>]

PyStr(s) == [t |-> "str", v |-> s]

PyBytes(s) == [t |-> "bytes", v |-> s]

PyList(l) == [t |-> "list", v |-> l]

PyTimedelta(seconds) == [t |-> "timedelta", v |-> <<seconds>>]

PyTrue == PyBool(TRUE)

PyFalse == PyBool(FALSE)

\* bool(x): None, False, 0, "", b"", [] and timedelta(0) are falsy
Truthy(x) ==
    CASE x.t = "NoneType" -> FALSE
      [] x.t \in {"bool", "int", "timedelta"} -> x.v[1] # 0
      [] OTHER -> Len(x.v) > 0

\* a call either returns a value or raises
Return(x) == [exc |-> "", val |-> x]

Raise(e) == [exc |-> e, val |-> PyNone]

\* decimal digits of a natural number, as code points
RECURSIVE Decimal(_)
Decimal(n) == IF n < 10 THEN <<48 + n>> ELSE Decimal(n \div 10) \o <<48 + (n % 10)>>

\* str(x) for the values the model passes through %s and str()
StrOf(x) ==
    CASE x.t = "str" -> x.v
      [] x.t = "int" -> IF x.v[1] < 0 THEN <<45>> \o Decimal(0 - x.v[1]) ELSE Decimal(x.v[1])
      [] x.t = "NoneType" -> <<78, 111, 110, 101>>
      [] x.t = "bool" -> IF x.v[1] = 1 THEN <<84, 114, 117, 101>> ELSE <<70, 97, 108, 115, 101>>
      [] OTHER -> x.v

----------------------------------------------------------------------------
(* str.encode("UTF-8") and bytes.decode("UTF-8"), code points below 2048 *)

RECURSIVE Utf8Encode(_)
Utf8Encode(s) ==
    IF s = <<>> THEN <<>>
    ELSE LET c == Head(s) IN
         (IF c < 128 THEN <<c>> ELSE <<192 + (c \div 64), 128 + (c % 64)>>)
         \o Utf8Encode(Tail(s))

Malformed == <<-1>>

RECURSIVE Utf8Decode(_)
Utf8Decode(b) ==
    IF b = <<>> THEN <<>>
    ELSE LET c == Head(b) IN
         IF c < 128
         THEN LET r == Utf8Decode(Tail(b)) IN IF r = Malformed THEN Malformed ELSE <<c>> \o r
         ELSE IF c >= 194 /\ c < 224 /\ Len(b) >= 2 /\ b[2] >= 128 /\ b[2] < 192
         THEN LET r == Utf8Decode(Tail(Tail(b))) IN
              IF r = Malformed THEN Malformed ELSE <<(c - 192) * 64 + (b[2] - 128)>> \o r
         ELSE Malformed

----------------------------------------------------------------------------
(* base64.urlsafe_b64encode / urlsafe_b64decode *)

\* the URL-safe alphabet: A-Z a-z 0-9 - _
B64Char(i) ==
    CASE i < 26 -> 65 + i
      [] i < 52 -> 97 + (i - 26)
      [] i < 62 -> 48 + (i - 52)
      [] i = 62 -> 45
      [] OTHER -> 95

B64Index(c) ==
    CASE c >= 65 /\ c <= 90 -> c - 65
      [] c >= 97 /\ c <= 122 -> c - 97 + 26
      [] c >= 48 /\ c <= 57 -> c - 48 + 52
      [] c = 45 -> 62
      [] c = 95 -> 63
      [] OTHER -> -1

\* the j-th output character: group g of three bytes, position k in the group
urlsafe_b64encode(b) ==
    [j \in 1..(4 * ((Len(b) + 2) \div 3)) |->
        LET g  == (j - 1) \div 4
            k  == (j - 1) % 4
            b1 == b[3 * g + 1]
            b2 == IF 3 * g + 2 <= Len(b) THEN b[3 * g + 2] ELSE 0
            b3 == IF 3 * g + 3 <= Len(b) THEN b[3 * g + 3] ELSE 0
        IN  CASE k = 0 -> B64Char(b1 \div 4)
              [] k = 1 -> B64Char((b1 % 4) * 16 + (b2 \div 16))
              [] k = 2 -> IF 3 * g + 2 > Len(b) THEN 61
                          ELSE B64Char((b2 % 16) * 4 + (b3 \div 64))
              [] OTHER -> IF 3 * g + 3 > Len(b) THEN 61 ELSE B64Char(b3 % 64)]

RECURSIVE urlsafe_b64decode(_)
urlsafe_b64decode(s) ==
    IF s = <<>> THEN <<>>
    ELSE IF Len(s) < 4 THEN Malformed
    ELSE LET i1 == B64Index(s[1])
             i2 == B64Index(s[2])
             i3 == B64Index(s[3])
             i4 == B64Index(s[4])
         IN  IF i1 < 0 \/ i2 < 0 THEN Malformed
             ELSE IF s[3] = 61
             THEN IF s[4] = 61 /\ Len(s) = 4
                  THEN <<i1 * 4 + (i2 \div 16)>>
                  ELSE Malformed
             ELSE IF i3 < 0 THEN Malformed
             ELSE IF s[4] = 61
             THEN IF Len(s) = 4
                  THEN <<i1 * 4 + (i2 \div 16), (i2 % 16) * 16 + (i3 \div 4)>>
                  ELSE Malformed
             ELSE IF i4 < 0 THEN Malformed
             ELSE LET r == urlsafe_b64decode(SubSeq(s, 5, Len(s))) IN
                  IF r = Malformed THEN Malformed
                  ELSE <<i1 * 4 + (i2 \div 16), (i2 % 16) * 16 + (i3 \div 4),
                         (i3 % 4) * 64 + i4>> \o r

----------------------------------------------------------------------------
(* datetime.strftime("%Y%m%d%H%M") and its inverse, over December 2023 and *)
(* January 2024; t counts seconds from 2024-01-01 00:00:00                 *)

TwoDigits(n) == <<48 + (n \div 10), 48 + (n % 10)>>

\* floor division, also for negative t
FloorDiv(a, b) == IF a >= 0 THEN a \div b ELSE 0 - ((b - 1 - a) \div b)

MinuteOf(t) == FloorDiv(t, 60)

\* variant: rounds to the nearest minute instead of truncating the seconds
strftime_rounds(t) ==
    LET m      == MinuteOf(t + 30)
        inJan  == m >= 0
        mm     == IF inJan THEN m ELSE m + 31 * 1440
    IN  (IF inJan THEN <<50, 48, 50, 52, 48, 49>> ELSE <<50, 48, 50, 51, 49, 50>>)
        \o TwoDigits(1 + (mm \div 1440)) \o TwoDigits((mm % 1440) \div 60)
        \o TwoDigits(mm % 60)

strftime(t) ==
    LET m      == MinuteOf(t)
        inJan  == m >= 0
        mm     == IF inJan THEN m ELSE m + 31 * 1440
        day    == 1 + (mm \div 1440)
        hour   == (mm % 1440) \div 60
        minute == mm % 60
    IN  (IF inJan THEN <<50, 48, 50, 52, 48, 49>> ELSE <<50, 48, 50, 51, 49, 50>>)
        \o TwoDigits(day) \o TwoDigits(hour) \o TwoDigits(minute)

IsDigits(s) == \A i \in 1..Len(s) : s[i] >= 48 /\ s[i] <= 57

Unparsable == [ok |-> FALSE, minute |-> 0]

\* the minute (counted from 2024-01-01 00:00) a YYYYMMDDHHMM stamp names
strptime(s) ==
    IF Len(s) # 12 \/ ~IsDigits(s) THEN Unparsable
    ELSE LET ym     == SubSeq(s, 1, 6)
             day    == (s[7] - 48) * 10 + (s[8] - 48)
             hour   == (s[9] - 48) * 10 + (s[10] - 48)
             minute == (s[11] - 48) * 10 + (s[12] - 48)
             inDay  == (day - 1) * 1440 + hour * 60 + minute
         IN  IF day < 1 \/ day > 31 \/ hour > 23 \/ minute > 59 THEN Unparsable
             ELSE IF ym = <<50, 48, 50, 52, 48, 49>> THEN [ok |-> TRUE, minute |-> inDay]
             ELSE IF ym = <<50, 48, 50, 51, 49, 50>>
             THEN [ok |-> TRUE, minute |-> inDay - 31 * 1440]
             ELSE Unparsable

----------------------------------------------------------------------------
(* hmac.new(key, msg, sha3_384).hexdigest(): Keccak-f[1600] on a state of  *)
(* 1600 bits, the SHA3-384 sponge over it, and HMAC with the sponge's rate *)
(* as its block size, as hashlib and hmac compute them.                    *)

\* rotation offsets of the rho step, by lane 5 * y + x + 1
RotationOffsets ==
    << 0,  1, 62, 28, 27,
      36, 44,  6, 55, 20,
       3, 10, 43, 25, 39,
      41, 45, 15, 21,  8,
      18,  2, 61, 56, 14>>

\* the bits set in the constant the iota step adds to lane (0, 0), by round
RoundConstants ==
    <<{0},
      {1, 7, 15},
      {1, 3, 7, 15, 63},
      {15, 31, 63},
      {0, 1, 3, 7, 15},
      {0, 31},
      {0, 7, 15, 31, 63},
      {0, 3, 15, 63},
      {1, 3, 7},
      {3, 7},
      {0, 3, 15, 31},
      {1, 3, 31},
      {0, 1, 3, 7, 15, 31},
      {0, 1, 3, 7, 63},
      {0, 3, 7, 15, 63},
      {0, 1, 15, 63},
      {1, 15, 63},
      {7, 63},
      {1, 3, 15},
      {1, 3, 31, 63},
      {0, 7, 15, 31, 63},
      {7, 15, 63},
      {0, 31},
      {3, 15, 31, 63}>>

StateBits == 1600

\* bit z of lane (x, y) is element 64 * (5 * y + x) + z + 1 of the state
BitAt(x, y, z) == 64 * (5 * y + x) + z + 1

Xor(a, b) == (a + b) % 2

\* rho and pi: lane (x, y) takes lane ((x + 3 * y) % 5, x) rotated by its offset
RhoPiSource ==
    [i \in 1..StateBits |->
        LET lane == (i - 1) \div 64
            z    == (i - 1) % 64
            x    == lane % 5
            y    == lane \div 5
            sx   == (x + 3 * y) % 5
            sy   == x
        IN  BitAt(sx, sy, (z + 64 - RotationOffsets[5 * sy + sx + 1]) % 64)] \o <<>>

\* chi: the two lanes to the right in the same row
ChiNext ==
    [i \in 1..StateBits |->
        LET lane == (i - 1) \div 64
        IN  BitAt(((lane % 5) + 1) % 5, lane \div 5, (i - 1) % 64)] \o <<>>

ChiAfter ==
    [i \in 1..StateBits |->
        LET lane == (i - 1) \div 64
        IN  BitAt(((lane % 5) + 2) % 5, lane \div 5, (i - 1) % 64)] \o <<>>

\* theta: column (x, z) is element 64 * x + z + 1
ThetaLeft ==
    [c \in 1..320 |-> 64 * (((c - 1) \div 64 + 4) % 5) + ((c - 1) % 64) + 1] \o <<>>

ThetaRight ==
    [c \in 1..320 |-> 64 * (((c - 1) \div 64 + 1) % 5) + ((((c - 1) % 64) + 63) % 64) + 1] \o <<>>

Theta(A) ==
    LET C == [c \in 1..320 |->
                 (A[c] + A[c + 320] + A[c + 640] + A[c + 960] + A[c + 1280]) % 2] \o <<>>
        D == [c \in 1..320 |-> Xor(C[ThetaLeft[c]], C[ThetaRight[c]])] \o <<>>
    IN  [i \in 1..StateBits |-> Xor(A[i], D[((i - 1) % 320) + 1])] \o <<>>

RhoPi(A) == [i \in 1..StateBits |-> A[RhoPiSource[i]]] \o <<>>

ChiIota(A, round) ==
    [i \in 1..StateBits |->
        LET chi == Xor(A[i], (1 - A[ChiNext[i]]) * A[ChiAfter[i]])
        IN  IF i <= 64 /\ (i - 1) \in RoundConstants[round] THEN 1 - chi ELSE chi] \o <<>>

Round(A, round) == ChiIota(RhoPi(Theta(A)), round)

RECURSIVE Rounds(_, _)
Rounds(A, round) ==
    IF round > 24 THEN A
    ELSE LET B == Round(A, round)
         IN  IF Len(B) = StateBits THEN Rounds(B, round + 1) ELSE B

\* Keccak-f[1600]
KeccakF(A) == Rounds(A, 1)

PowersOfTwo == <<1, 2, 4, 8, 16, 32, 64, 128>>

\* the bits of a byte string, least significant bit of each byte first
BitsOf(b) ==
    [i \in 1..(8 * Len(b)) |-> (b[(i + 7) \div 8] \div PowersOfTwo[((i - 1) % 8) + 1]) % 2] \o <<>>

BytesOf(bits) ==
    [j \in 1..(Len(bits) \div 8) |->
        bits[8 * j - 7] + 2 * bits[8 * j - 6] + 4 * bits[8 * j - 5] + 8 * bits[8 * j - 4]
        + 16 * bits[8 * j - 3] + 32 * bits[8 * j - 2] + 64 * bits[8 * j - 1]
        + 128 * bits[8 * j]] \o <<>>

\* SHA3-384: rate 104 bytes, capacity 96 bytes, digest 48 bytes
RateBytes == 104
DigestBytes == 48

\* pad10*1 after the domain bits 01 of SHA-3: 0x06, zero bytes, 0x80 on the last
Pad(msg) ==
    LET fill == RateBytes - (Len(msg) % RateBytes)
    IN  msg \o (IF fill = 1 THEN <<134>>
                ELSE <<6>> \o [i \in 1..(fill - 2) |-> 0] \o <<128>>)

RECURSIVE Sponge(_, _, _)
Sponge(A, bits, block) ==
    IF 8 * RateBytes * block >= Len(bits) THEN A
    ELSE Sponge(KeccakF([i \in 1..StateBits |->
                            IF i <= 8 * RateBytes
                            THEN Xor(A[i], bits[8 * RateBytes * block + i])
                            ELSE A[i]] \o <<>>),
                bits, block + 1)

\* hashlib.sha3_384(msg).digest()
sha3_384(msg) ==
    BytesOf(SubSeq(Sponge([i \in 1..StateBits |-> 0] \o <<>>, BitsOf(Pad(msg)), 0),
                   1, 8 * DigestBytes))

\* bytes XOR-ed with one pad byte
XorPad(b, pad) ==
    LET x == BitsOf(b)
        p == BitsOf(<<pad>>)
    IN  BytesOf([i \in 1..Len(x) |-> Xor(x[i], p[((i - 1) % 8) + 1])] \o <<>>)

\* hmac.new(key, msg, hashlib.sha3_384).digest(): the block size is the rate
hmac_digest(key, msg) ==
    LET short  == IF Len(key) > RateBytes THEN sha3_384(key) ELSE key
        padded == short \o [i \in 1..(RateBytes - Len(short)) |-> 0]
    IN  sha3_384(XorPad(padded, 92) \o sha3_384(XorPad(padded, 54) \o msg))

\* hmac_digest of the (key, message) pairs the calls below sign, computed
\* once: a digest costs four permutations
Digests ==
    <<<<>>, <<>>>> :>
        <<173, 202, 137, 240, 123, 191, 190, 175, 88, 136, 12, 21, 114, 55, 158, 162, 65, 101, 104, 253, 59, 102, 84, 43, 212, 37, 153, 197, 124, 69, 103, 230, 174, 8, 98, 153, 234, 33, 108, 111, 62, 122, 239, 144, 182, 25, 29, 36>>
    @@ <<<<>>, <<55>>>> :>
        <<86, 147, 64, 159, 86, 107, 138, 190, 181, 185, 225, 122, 156, 96, 68, 16, 204, 45, 209, 85, 114, 179, 199, 247, 35, 177, 164, 20, 2, 21, 180, 158, 130, 3, 152, 94, 6, 246, 24, 163, 47, 73, 196, 255, 232, 148, 99, 180>>
    @@ <<<<>>, <<65, 65, 65, 65>>>> :>
        <<14, 41, 124, 76, 43, 160, 85, 28, 79, 94, 8, 157, 198, 147, 201, 204, 116, 119, 107, 68, 186, 39, 205, 251, 234, 179, 99, 125, 129, 47, 253, 5, 154, 45, 38, 186, 102, 194, 47, 3, 66, 13, 38, 94, 45, 217, 185, 130>>
    @@ <<<<>>, <<89, 83, 57, 107, 90, 88, 74, 112, 100, 109, 86, 107, 76, 50, 89, 65>>>> :>
        <<37, 245, 10, 196, 27, 98, 88, 14, 91, 153, 198, 255, 131, 13, 126, 140, 210, 90, 135, 43, 205, 144, 116, 60, 55, 103, 196, 180, 198, 195, 201, 182, 164, 134, 141, 53, 137, 61, 199, 210, 61, 74, 183, 56, 170, 39, 99, 50>>
    @@ <<<<>>, <<89, 83, 57, 107, 90, 88, 74, 112, 100, 109, 86, 107, 76, 50, 89, 65, 77, 65, 61>>>> :>
        <<71, 84, 15, 135, 24, 92, 135, 244, 194, 168, 169, 205, 205, 41, 108, 210, 29, 214, 108, 238, 172, 136, 16, 63, 73, 203, 221, 32, 164, 129, 161, 31, 46, 230, 94, 73, 126, 19, 110, 44, 134, 246, 9, 213, 125, 247, 0, 21>>
    @@ <<<<>>, <<89, 83, 57, 107, 90, 88, 74, 112, 100, 109, 86, 107, 76, 50, 89, 65, 77, 65, 61, 61>>>> :>
        <<34, 26, 120, 21, 137, 216, 16, 225, 126, 211, 174, 1, 243, 149, 130, 55, 203, 171, 162, 30, 192, 215, 202, 109, 23, 230, 247, 162, 56, 67, 84, 199, 146, 7, 69, 252, 103, 149, 18, 145, 60, 58, 188, 39, 198, 24, 96, 130>>
    @@ <<<<>>, <<89, 83, 57, 107, 90, 88, 74, 112, 100, 109, 86, 107, 76, 50, 89, 65, 77, 106, 65, 121, 77, 122, 69, 121, 77, 122, 69, 121, 77, 122, 85>>>> :>
        <<46, 32, 138, 128, 177, 70, 104, 223, 163, 233, 247, 198, 45, 90, 183, 220, 106, 5, 212, 196, 118, 239, 186, 132, 136, 90, 235, 38, 58, 219, 192, 72, 130, 27, 12, 182, 184, 192, 29, 101, 247, 18, 34, 245, 108, 100, 203, 30>>
    @@ <<<<>>, <<89, 83, 57, 107, 90, 88, 74, 112, 100, 109, 86, 107, 76, 50, 89, 65, 77, 106, 65, 121, 77, 122, 69, 121, 77, 122, 69, 121, 77, 122, 85, 51>>>> :>
        <<244, 140, 207, 151, 172, 127, 161, 161, 181, 149, 52, 80, 143, 105, 112, 89, 127, 112, 86, 56, 97, 109, 159, 134, 176, 253, 18, 181, 52, 235, 120, 77, 52, 164, 28, 63, 120, 55, 56, 94, 14, 187, 44, 44, 94, 250, 182, 144>>
    @@ <<<<>>, <<89, 83, 57, 107, 90, 88, 74, 112, 100, 109, 86, 107, 76, 50, 89, 65, 77, 106, 65, 121, 77, 122, 69, 121, 77, 122, 69, 121, 77, 122, 85, 52>>>> :>
        <<131, 194, 203, 19, 22, 105, 83, 31, 236, 225, 125, 22, 243, 73, 165, 40, 199, 214, 24, 116, 100, 56, 250, 197, 144, 65, 239, 239, 240, 169, 14, 235, 239, 238, 54, 243, 235, 38, 182, 176, 169, 181, 243, 32, 220, 212, 201, 210>>
    @@ <<<<>>, <<89, 83, 57, 107, 90, 88, 74, 112, 100, 109, 86, 107, 76, 50, 89, 65, 77, 106, 65, 121, 77, 122, 69, 121, 77, 122, 69, 121, 77, 122, 85, 53>>>> :>
        <<63, 221, 71, 161, 168, 10, 26, 225, 175, 23, 227, 100, 240, 161, 90, 216, 182, 185, 209, 86, 149, 255, 175, 3, 8, 35, 22, 114, 254, 3, 22, 215, 50, 24, 142, 108, 176, 235, 71, 5, 101, 252, 111, 64, 193, 98, 128, 100>>
    @@ <<<<>>, <<89, 83, 57, 107, 90, 88, 74, 112, 100, 109, 86, 107, 76, 50, 89, 65, 77, 106, 65, 121, 77, 122, 69, 121, 77, 122, 69, 121, 77, 122, 85, 61>>>> :>
        <<46, 213, 198, 165, 199, 194, 252, 124, 178, 249, 83, 26, 241, 160, 4, 179, 110, 248, 225, 66, 22, 68, 64, 251, 150, 58, 82, 118, 12, 159, 205, 171, 49, 197, 43, 103, 36, 233, 97, 44, 115, 210, 162, 88, 73, 119, 179, 200>>
    @@ <<<<>>, <<89, 83, 57, 107, 90, 88, 74, 112, 100, 109, 86, 107, 76, 50, 89, 65, 77, 106, 65, 121, 78, 68, 65, 120, 77, 68, 69, 119, 77, 68, 65>>>> :>
        <<208, 25, 240, 24, 178, 85, 59, 13, 94, 149, 47, 136, 118, 241, 151, 134, 71, 246, 222, 138, 60, 64, 64, 232, 72, 43, 60, 204, 114, 175, 231, 140, 163, 18, 206, 214, 160, 163, 85, 47, 138, 238, 48, 20, 189, 182, 50, 163>>
    @@ <<<<>>, <<89, 83, 57, 107, 90, 88, 74, 112, 100, 109, 86, 107, 76, 50, 89, 65, 77, 106, 65, 121, 78, 68, 65, 120, 77, 68, 69, 119, 77, 68, 65, 48>>>> :>
        <<224, 7, 146, 119, 216, 206, 41, 220, 25, 128, 139, 128, 10, 96, 249, 33, 28, 9, 113, 182, 95, 174, 12, 195, 119, 165, 16, 138, 92, 119, 195, 92, 215, 53, 75, 185, 210, 245, 134, 78, 173, 93, 171, 138, 246, 213, 88, 118>>
    @@ <<<<>>, <<89, 83, 57, 107, 90, 88, 74, 112, 100, 109, 86, 107, 76, 50, 89, 65, 77, 106, 65, 121, 78, 68, 65, 120, 77, 68, 69, 119, 77, 68, 65, 61>>>> :>
        <<60, 47, 141, 174, 233, 207, 236, 72, 87, 93, 141, 180, 240, 115, 194, 23, 7, 107, 167, 60, 98, 0, 76, 149, 6, 134, 117, 29, 106, 71, 130, 170, 41, 57, 134, 155, 230, 127, 41, 248, 12, 57, 172, 189, 21, 137, 18, 144>>
    @@ <<<<>>, <<89, 83, 57, 107, 90, 88, 74, 112, 100, 109, 86, 107, 76, 50, 89, 65, 77, 106, 65, 121, 78, 68, 65, 120, 77, 68, 69, 119, 77, 68, 65, 119>>>> :>
        <<65, 10, 218, 83, 167, 5, 193, 56, 18, 12, 165, 94, 245, 73, 46, 161, 214, 98, 83, 95, 50, 90, 237, 75, 53, 72, 146, 5, 244, 213, 123, 40, 253, 62, 122, 10, 234, 41, 162, 154, 53, 145, 105, 224, 101, 204, 224, 243>>
    @@ <<<<>>, <<89, 83, 57, 107, 90, 88, 74, 112, 100, 109, 86, 107, 76, 50, 89, 65, 77, 106, 65, 121, 78, 68, 65, 120, 77, 68, 69, 119, 77, 68, 65, 120>>>> :>
        <<115, 162, 92, 71, 5, 63, 78, 59, 152, 216, 26, 68, 60, 209, 20, 226, 252, 241, 210, 51, 51, 202, 117, 197, 2, 185, 149, 202, 240, 242, 155, 28, 30, 68, 26, 161, 52, 76, 161, 245, 83, 159, 68, 52, 201, 9, 191, 143>>
    @@ <<<<>>, <<89, 83, 57, 107, 90, 88, 74, 112, 100, 109, 86, 107, 76, 50, 89, 65, 77, 106, 65, 121, 78, 68, 65, 120, 77, 68, 69, 119, 77, 68, 65, 121>>>> :>
        <<244, 146, 172, 118, 224, 221, 36, 59, 74, 109, 129, 7, 65, 232, 7, 115, 150, 68, 156, 16, 247, 49, 109, 21, 75, 98, 97, 48, 232, 187, 253, 181, 1, 145, 32, 91, 239, 35, 42, 140, 168, 44, 173, 31, 123, 205, 78, 252>>
    @@ <<<<>>, <<89, 83, 57, 107, 90, 88, 74, 112, 100, 109, 86, 107, 76, 50, 89, 65, 77, 106, 65, 121, 78, 68, 65, 120, 77, 68, 69, 119, 77, 68, 65, 122>>>> :>
        <<184, 244, 185, 63, 225, 78, 93, 191, 216, 244, 149, 228, 34, 202, 53, 218, 60, 54, 187, 180, 255, 64, 163, 169, 34, 161, 80, 85, 152, 94, 129, 150, 55, 42, 178, 199, 108, 7, 20, 89, 98, 122, 95, 92, 213, 128, 194, 43>>
    @@ <<<<>>, <<89, 83, 57, 107, 90, 88, 74, 112, 100, 109, 86, 107, 76, 50, 89, 119>>>> :>
        <<117, 250, 27, 144, 105, 53, 23, 187, 215, 110, 228, 16, 96, 154, 13, 131, 67, 234, 219, 106, 50, 218, 61, 39, 255, 16, 228, 88, 207, 63, 150, 92, 58, 95, 25, 112, 32, 53, 216, 240, 145, 160, 225, 202, 179, 225, 147, 145>>
    @@ <<<<>>, <<89, 83, 57, 107, 90, 88, 74, 112, 100, 109, 86, 107, 76, 50, 89, 121, 77, 68, 73, 48, 77, 68, 69, 119, 77, 84, 65, 119, 77, 68, 65, 61>>>> :>
        <<162, 3, 200, 40, 34, 40, 127, 225, 233, 247, 198, 92, 55, 55, 187, 82, 144, 212, 128, 139, 210, 251, 229, 10, 207, 77, 239, 35, 52, 15, 31, 90, 9, 38, 204, 62, 182, 50, 253, 151, 65, 251, 181, 39, 21, 201, 64, 81>>
    @@ <<<<>>, <<89, 83, 57, 107, 90, 88, 74, 112, 100, 109, 86, 107, 76, 50, 89, 121, 77, 68, 73, 48, 77, 68, 69, 119, 77, 84, 65, 119, 77, 68, 69, 61>>>> :>
        <<207, 82, 83, 208, 133, 122, 39, 133, 126, 7, 77, 185, 32, 208, 21, 143, 125, 94, 252, 227, 224, 27, 237, 145, 47, 254, 112, 1, 52, 222, 40, 215, 89, 18, 63, 191, 237, 16, 68, 17, 53, 165, 148, 77, 100, 155, 37, 176>>
    @@ <<<<>>, <<89, 83, 57, 107, 90, 88, 74, 112, 100, 109, 86, 107, 76, 50, 89, 121, 77, 68, 73, 48, 77, 68, 69, 119, 77, 84, 65, 119, 77, 68, 73, 61>>>> :>
        <<120, 2, 0, 77, 223, 183, 53, 249, 252, 9, 10, 17, 248, 123, 111, 80, 249, 238, 75, 6, 220, 221, 25, 56, 102, 13, 184, 149, 231, 212, 206, 218, 3, 242, 214, 154, 135, 41, 137, 73, 54, 60, 241, 10, 154, 102, 99, 159>>
    @@ <<<<>>, <<89, 83, 57, 107, 90, 88, 74, 112, 100, 109, 86, 107, 76, 50, 89, 121, 77, 68, 73, 48, 77, 68, 69, 119, 77, 84, 65, 119, 77, 68, 77, 61>>>> :>
        <<106, 174, 226, 162, 123, 106, 70, 176, 39, 80, 7, 103, 92, 9, 231, 1, 123, 124, 90, 41, 230, 110, 20, 112, 121, 37, 132, 210, 140, 93, 154, 167, 94, 182, 46, 12, 60, 240, 220, 85, 131, 98, 109, 119, 17, 166, 30, 164>>
    @@ <<<<>>, <<89, 83, 57, 107, 90, 88, 74, 112, 100, 109, 86, 107, 76, 50, 89, 121, 77, 68, 73, 48, 77, 68, 69, 119, 77, 84, 65, 119, 77, 68, 81, 61>>>> :>
        <<47, 234, 25, 248, 110, 213, 195, 218, 138, 249, 99, 41, 159, 253, 116, 220, 252, 210, 230, 53, 57, 139, 74, 181, 12, 186, 31, 160, 113, 30, 255, 133, 24, 61, 12, 14, 71, 82, 81, 218, 0, 46, 75, 126, 230, 107, 251, 23>>
    @@ <<<<>>, <<89, 83, 57, 107, 90, 88, 74, 112, 100, 109, 86, 107, 76, 50, 89, 121, 77, 68, 73, 122, 77, 84, 73, 122, 77, 84, 73, 122, 78, 84, 99, 61>>>> :>
        <<48, 183, 23, 255, 100, 71, 118, 252, 70, 199, 207, 249, 215, 207, 183, 54, 180, 246, 87, 53, 39, 108, 55, 172, 68, 126, 53, 97, 0, 240, 104, 121, 131, 21, 216, 9, 194, 110, 200, 29, 76, 127, 61, 121, 7, 232, 237, 86>>
    @@ <<<<>>, <<89, 83, 57, 107, 90, 88, 74, 112, 100, 109, 86, 107, 76, 50, 89, 121, 77, 68, 73, 122, 77, 84, 73, 122, 77, 84, 73, 122, 78, 84, 103, 61>>>> :>
        <<153, 196, 239, 186, 213, 178, 250, 147, 15, 242, 170, 57, 212, 117, 142, 117, 222, 109, 227, 118, 106, 50, 254, 77, 161, 32, 86, 200, 58, 137, 235, 71, 131, 253, 222, 88, 76, 21, 138, 249, 58, 30, 20, 1, 250, 193, 98, 201>>
    @@ <<<<>>, <<89, 83, 57, 107, 90, 88, 74, 112, 100, 109, 86, 107, 76, 50, 89, 121, 77, 68, 73, 122, 77, 84, 73, 122, 77, 84, 73, 122, 78, 84, 107, 61>>>> :>
        <<183, 159, 83, 178, 120, 40, 184, 17, 245, 143, 16, 58, 219, 242, 151, 130, 149, 174, 241, 146, 87, 110, 139, 244, 228, 86, 147, 183, 6, 45, 38, 142, 24, 130, 180, 203, 174, 78, 136, 21, 186, 57, 232, 215, 101, 51, 185, 238>>
    @@ <<<<>>, <<89, 83, 57, 107, 90, 88, 74, 112, 100, 109, 86, 107, 76, 56, 79, 112, 76, 110, 65, 65>>>> :>
        <<62, 172, 28, 56, 82, 177, 38, 195, 204, 12, 230, 49, 73, 108, 144, 108, 53, 203, 105, 241, 170, 51, 49, 155, 166, 102, 240, 38, 21, 245, 217, 10, 222, 17, 158, 233, 252, 201, 131, 83, 57, 52, 25, 137, 149, 1, 108, 109>>
    @@ <<<<>>, <<89, 83, 57, 107, 90, 88, 74, 112, 100, 109, 86, 107, 76, 56, 79, 112, 76, 110, 65, 65, 77, 65, 61>>>> :>
        <<77, 220, 196, 1, 203, 107, 202, 39, 46, 60, 59, 81, 102, 26, 39, 253, 11, 2, 111, 233, 2, 142, 57, 134, 101, 203, 132, 113, 0, 42, 37, 98, 48, 226, 160, 242, 98, 83, 195, 199, 215, 160, 74, 175, 165, 249, 89, 127>>
    @@ <<<<>>, <<89, 83, 57, 107, 90, 88, 74, 112, 100, 109, 86, 107, 76, 56, 79, 112, 76, 110, 65, 65, 77, 65, 61, 61>>>> :>
        <<135, 180, 162, 114, 40, 93, 161, 250, 117, 43, 52, 59, 64, 162, 164, 95, 253, 172, 1, 121, 249, 110, 214, 182, 25, 37, 130, 133, 106, 183, 222, 122, 20, 12, 56, 186, 103, 216, 128, 229, 135, 77, 130, 143, 240, 13, 35, 205>>
    @@ <<<<>>, <<89, 83, 57, 107, 90, 88, 74, 112, 100, 109, 86, 107, 76, 56, 79, 112, 76, 110, 65, 65, 77, 106, 65, 121, 77, 122, 69, 121, 77, 122, 69, 121, 77, 122, 85>>>> :>
        <<124, 167, 172, 69, 120, 35, 96, 255, 107, 220, 174, 197, 193, 137, 78, 202, 184, 144, 16, 112, 57, 37, 218, 20, 115, 148, 99, 34, 52, 241, 150, 142, 89, 155, 10, 129, 97, 63, 84, 80, 170, 225, 98, 134, 176, 46, 32, 72>>
    @@ <<<<>>, <<89, 83, 57, 107, 90, 88, 74, 112, 100, 109, 86, 107, 76, 56, 79, 112, 76, 110, 65, 65, 77, 106, 65, 121, 77, 122, 69, 121, 77, 122, 69, 121, 77, 122, 85, 51>>>> :>
        <<98, 217, 255, 46, 37, 85, 168, 108, 14, 248, 157, 143, 51, 35, 180, 70, 13, 78, 107, 70, 243, 154, 216, 46, 249, 17, 191, 235, 236, 54, 0, 23, 126, 216, 132, 67, 121, 195, 242, 62, 113, 147, 99, 52, 176, 210, 205, 25>>
    @@ <<<<>>, <<89, 83, 57, 107, 90, 88, 74, 112, 100, 109, 86, 107, 76, 56, 79, 112, 76, 110, 65, 65, 77, 106, 65, 121, 77, 122, 69, 121, 77, 122, 69, 121, 77, 122, 85, 52>>>> :>
        <<221, 228, 72, 174, 153, 183, 190, 182, 196, 98, 102, 117, 69, 147, 249, 147, 245, 59, 3, 158, 1, 243, 228, 81, 11, 188, 82, 104, 53, 107, 157, 86, 205, 152, 251, 146, 21, 122, 32, 234, 221, 179, 185, 210, 142, 113, 43, 166>>
    @@ <<<<>>, <<89, 83, 57, 107, 90, 88, 74, 112, 100, 109, 86, 107, 76, 56, 79, 112, 76, 110, 65, 65, 77, 106, 65, 121, 77, 122, 69, 121, 77, 122, 69, 121, 77, 122, 85, 53>>>> :>
        <<156, 232, 184, 159, 19, 219, 118, 125, 212, 185, 19, 240, 243, 233, 36, 83, 24, 120, 80, 173, 110, 137, 69, 193, 30, 48, 151, 109, 69, 181, 76, 103, 95, 57, 133, 65, 132, 166, 74, 8, 56, 71, 237, 36, 151, 253, 7, 95>>
    @@ <<<<>>, <<89, 83, 57, 107, 90, 88, 74, 112, 100, 109, 86, 107, 76, 56, 79, 112, 76, 110, 65, 65, 77, 106, 65, 121, 77, 122, 69, 121, 77, 122, 69, 121, 77, 122, 85, 61>>>> :>
        <<5, 46, 207, 4, 19, 3, 229, 82, 5, 205, 95, 202, 85, 107, 186, 71, 6, 171, 215, 175, 184, 109, 152, 141, 36, 171, 55, 74, 208, 236, 230, 163, 90, 76, 230, 26, 46, 84, 244, 82, 248, 255, 123, 169, 171, 220, 142, 248>>
    @@ <<<<>>, <<89, 83, 57, 107, 90, 88, 74, 112, 100, 109, 86, 107, 76, 56, 79, 112, 76, 110, 65, 65, 77, 106, 65, 121, 78, 68, 65, 120, 77, 68, 69, 119, 77, 68, 65>>>> :>
        <<117, 78, 156, 235, 234, 98, 68, 65, 21, 235, 41, 79, 137, 26, 250, 137, 248, 58, 112, 148, 151, 205, 104, 158, 189, 127, 237, 31, 198, 225, 230, 255, 32, 75, 109, 145, 136, 0, 220, 15, 227, 141, 21, 178, 82, 222, 179, 222>>
    @@ <<<<>>, <<89, 83, 57, 107, 90, 88, 74, 112, 100, 109, 86, 107, 76, 56, 79, 112, 76, 110, 65, 65, 77, 106, 65, 121, 78, 68, 65, 120, 77, 68, 69, 119, 77, 68, 65, 48>>>> :>
        <<229, 107, 129, 66, 113, 178, 119, 176, 10, 22, 106, 137, 11, 206, 211, 151, 51, 146, 135, 62, 174, 133, 97, 75, 154, 159, 36, 61, 73, 37, 151, 124, 144, 222, 15, 155, 52, 237, 24, 78, 141, 182, 187, 154, 143, 57, 216, 181>>
    @@ <<<<>>, <<89, 83, 57, 107, 90, 88, 74, 112, 100, 109, 86, 107, 76, 56, 79, 112, 76, 110, 65, 65, 77, 106, 65, 121, 78, 68, 65, 120, 77, 68, 69, 119, 77, 68, 65, 61>>>> :>
        <<176, 25, 61, 173, 243, 72, 199, 188, 34, 142, 168, 182, 251, 51, 85, 20, 43, 165, 78, 4, 128, 110, 201, 128, 183, 192, 163, 155, 48, 56, 250, 55, 220, 157, 154, 41, 97, 60, 132, 37, 109, 143, 218, 237, 224, 86, 232, 82>>
    @@ <<<<>>, <<89, 83, 57, 107, 90, 88, 74, 112, 100, 109, 86, 107, 76, 56, 79, 112, 76, 110, 65, 65, 77, 106, 65, 121, 78, 68, 65, 120, 77, 68, 69, 119, 77, 68, 65, 119>>>> :>
        <<193, 191, 121, 60, 203, 95, 14, 214, 30, 159, 11, 80, 124, 144, 242, 9, 127, 220, 56, 12, 11, 36, 234, 8, 91, 61, 208, 140, 188, 50, 190, 12, 239, 27, 248, 251, 216, 56, 133, 151, 183, 5, 99, 77, 56, 35, 87, 114>>
    @@ <<<<>>, <<89, 83, 57, 107, 90, 88, 74, 112, 100, 109, 86, 107, 76, 56, 79, 112, 76, 110, 65, 65, 77, 106, 65, 121, 78, 68, 65, 120, 77, 68, 69, 119, 77, 68, 65, 120>>>> :>
        <<56, 108, 57, 158, 42, 69, 255, 1, 131, 178, 91, 228, 118, 4, 201, 86, 42, 144, 212, 96, 160, 133, 190, 110, 188, 245, 20, 204, 122, 175, 145, 30, 219, 254, 12, 70, 50, 177, 252, 125, 27, 244, 101, 212, 125, 197, 195, 167>>
    @@ <<<<>>, <<89, 83, 57, 107, 90, 88, 74, 112, 100, 109, 86, 107, 76, 56, 79, 112, 76, 110, 65, 65, 77, 106, 65, 121, 78, 68, 65, 120, 77, 68, 69, 119, 77, 68, 65, 121>>>> :>
        <<58, 169, 80, 67, 65, 103, 38, 161, 77, 76, 141, 214, 38, 231, 74, 180, 83, 198, 224, 106, 105, 112, 10, 153, 16, 128, 74, 84, 123, 182, 5, 4, 64, 90, 5, 205, 132, 61, 130, 143, 150, 212, 174, 182, 145, 80, 126, 202>>
    @@ <<<<>>, <<89, 83, 57, 107, 90, 88, 74, 112, 100, 109, 86, 107, 76, 56, 79, 112, 76, 110, 65, 65, 77, 106, 65, 121, 78, 68, 65, 120, 77, 68, 69, 119, 77, 68, 65, 122>>>> :>
        <<159, 255, 38, 130, 202, 225, 115, 67, 244, 174, 11, 169, 154, 188, 25, 14, 111, 237, 187, 85, 213, 198, 59, 37, 26, 7, 125, 163, 201, 251, 31, 108, 87, 185, 189, 10, 84, 198, 242, 142, 250, 135, 251, 58, 130, 187, 0, 86>>
    @@ <<<<>>, <<89, 83, 57, 107, 90, 88, 74, 112, 100, 109, 86, 107, 76, 56, 79, 112, 76, 110, 65, 119>>>> :>
        <<166, 153, 143, 220, 29, 167, 76, 97, 121, 30, 83, 115, 136, 42, 174, 100, 202, 173, 171, 125, 28, 69, 133, 195, 214, 185, 44, 214, 65, 175, 199, 48, 176, 224, 37, 143, 208, 71, 142, 115, 28, 204, 13, 11, 42, 48, 115, 252>>
    @@ <<<<>>, <<89, 83, 57, 107, 90, 88, 74, 112, 100, 109, 86, 107, 76, 56, 79, 112, 76, 110, 65, 121, 77, 68, 73, 48, 77, 68, 69, 119, 77, 84, 65, 119, 77, 68, 65, 61>>>> :>
        <<109, 177, 145, 133, 131, 65, 226, 225, 100, 70, 34, 68, 67, 16, 73, 197, 211, 170, 213, 32, 117, 17, 111, 178, 73, 30, 25, 61, 140, 73, 218, 111, 170, 55, 85, 63, 54, 238, 116, 101, 239, 222, 173, 234, 75, 158, 19, 184>>
    @@ <<<<>>, <<89, 83, 57, 107, 90, 88, 74, 112, 100, 109, 86, 107, 76, 56, 79, 112, 76, 110, 65, 121, 77, 68, 73, 48, 77, 68, 69, 119, 77, 84, 65, 119, 77, 68, 69, 61>>>> :>
        <<124, 189, 126, 69, 191, 187, 111, 66, 61, 209, 130, 198, 59, 92, 89, 56, 77, 124, 68, 176, 123, 112, 246, 216, 105, 115, 60, 165, 204, 5, 86, 228, 126, 221, 172, 186, 22, 38, 192, 19, 18, 9, 45, 175, 215, 236, 43, 55>>
    @@ <<<<>>, <<89, 83, 57, 107, 90, 88, 74, 112, 100, 109, 86, 107, 76, 56, 79, 112, 76, 110, 65, 121, 77, 68, 73, 48, 77, 68, 69, 119, 77, 84, 65, 119, 77, 68, 73, 61>>>> :>
        <<155, 72, 46, 250, 58, 204, 209, 160, 30, 196, 117, 177, 200, 148, 33, 117, 243, 228, 158, 190, 88, 17, 31, 94, 15, 56, 10, 140, 118, 156, 137, 254, 218, 16, 64, 187, 148, 71, 226, 109, 90, 18, 132, 190, 86, 82, 33, 217>>
    @@ <<<<>>, <<89, 83, 57, 107, 90, 88, 74, 112, 100, 109, 86, 107, 76, 56, 79, 112, 76, 110, 65, 121, 77, 68, 73, 48, 77, 68, 69, 119, 77, 84, 65, 119, 77, 68, 77, 61>>>> :>
        <<48, 106, 158, 117, 175, 126, 93, 245, 149, 53, 40, 38, 10, 6, 142, 247, 147, 141, 158, 12, 154, 180, 140, 211, 8, 114, 77, 82, 159, 227, 165, 134, 81, 15, 194, 252, 255, 175, 0, 120, 15, 41, 137, 163, 67, 18, 186, 217>>
    @@ <<<<>>, <<89, 83, 57, 107, 90, 88, 74, 112, 100, 109, 86, 107, 76, 56, 79, 112, 76, 110, 65, 121, 77, 68, 73, 48, 77, 68, 69, 119, 77, 84, 65, 119, 77, 68, 81, 61>>>> :>
        <<109, 48, 245, 5, 234, 76, 115, 161, 125, 104, 136, 132, 130, 66, 77, 254, 23, 254, 113, 177, 10, 38, 49, 14, 18, 162, 25, 175, 89, 67, 23, 78, 174, 78, 252, 133, 235, 148, 59, 79, 49, 46, 208, 46, 216, 63, 128, 188>>
    @@ <<<<>>, <<89, 83, 57, 107, 90, 88, 74, 112, 100, 109, 86, 107, 76, 56, 79, 112, 76, 110, 65, 121, 77, 68, 73, 122, 77, 84, 73, 122, 77, 84, 73, 122, 78, 84, 99, 61>>>> :>
        <<114, 41, 96, 227, 39, 132, 246, 97, 37, 229, 32, 234, 126, 243, 178, 171, 128, 187, 240, 93, 175, 111, 78, 28, 235, 126, 51, 249, 209, 142, 47, 210, 208, 36, 211, 187, 115, 193, 172, 127, 121, 229, 99, 198, 179, 111, 179, 25>>
    @@ <<<<>>, <<89, 83, 57, 107, 90, 88, 74, 112, 100, 109, 86, 107, 76, 56, 79, 112, 76, 110, 65, 121, 77, 68, 73, 122, 77, 84, 73, 122, 77, 84, 73, 122, 78, 84, 103, 61>>>> :>
        <<21, 41, 159, 160, 188, 104, 1, 176, 206, 91, 131, 10, 21, 203, 111, 19, 236, 53, 33, 57, 239, 138, 99, 246, 182, 66, 155, 134, 125, 21, 3, 124, 166, 212, 138, 208, 28, 213, 4, 214, 222, 195, 30, 60, 210, 97, 186, 44>>
    @@ <<<<>>, <<89, 83, 57, 107, 90, 88, 74, 112, 100, 109, 86, 107, 76, 56, 79, 112, 76, 110, 65, 121, 77, 68, 73, 122, 77, 84, 73, 122, 77, 84, 73, 122, 78, 84, 107, 61>>>> :>
        <<113, 84, 171, 80, 154, 185, 205, 7, 57, 80, 41, 159, 82, 214, 98, 198, 63, 161, 35, 135, 3, 130, 247, 10, 61, 162, 26, 86, 158, 196, 126, 218, 198, 60, 158, 144, 15, 61, 244, 231, 67, 82, 43, 210, 2, 52, 67, 42>>
    @@ <<<<>>, <<89, 83, 57, 122, 98, 51, 86, 121, 89, 50, 85, 118, 90, 103, 65>>>> :>
        <<94, 153, 118, 101, 44, 200, 73, 76, 151, 37, 177, 185, 75, 165, 5, 31, 155, 124, 150, 177, 165, 38, 25, 115, 127, 66, 223, 62, 133, 168, 162, 72, 76, 130, 2, 99, 254, 205, 7, 147, 140, 255, 68, 99, 101, 9, 58, 10>>
    @@ <<<<>>, <<89, 83, 57, 122, 98, 51, 86, 121, 89, 50, 85, 118, 90, 103, 65, 61>>>> :>
        <<195, 200, 234, 95, 200, 5, 170, 148, 44, 31, 105, 234, 167, 142, 146, 255, 66, 167, 183, 90, 36, 49, 148, 191, 194, 249, 106, 173, 219, 36, 5, 156, 120, 129, 231, 124, 203, 132, 0, 64, 222, 20, 116, 11, 115, 197, 251, 181>>
    @@ <<<<>>, <<89, 83, 57, 122, 98, 51, 86, 121, 89, 50, 85, 118, 90, 103, 65, 119>>>> :>
        <<217, 62, 225, 185, 249, 57, 17, 225, 228, 15, 82, 211, 163, 99, 224, 13, 13, 190, 117, 165, 136, 59, 73, 195, 189, 64, 233, 119, 8, 41, 115, 124, 181, 85, 23, 229, 72, 214, 135, 136, 129, 44, 17, 40, 241, 136, 188, 120>>
    @@ <<<<>>, <<89, 83, 57, 122, 98, 51, 86, 121, 89, 50, 85, 118, 90, 103, 65, 121, 77, 68, 73, 48, 77, 68, 69, 119, 77, 84, 65, 119, 77, 65, 61, 61>>>> :>
        <<177, 166, 228, 255, 131, 221, 146, 43, 114, 84, 157, 219, 197, 241, 86, 137, 99, 111, 74, 251, 249, 132, 197, 172, 208, 35, 46, 137, 116, 87, 100, 241, 15, 141, 61, 139, 250, 133, 156, 84, 252, 231, 173, 218, 238, 188, 218, 117>>
    @@ <<<<>>, <<89, 83, 57, 122, 98, 51, 86, 121, 89, 50, 85, 118, 90, 103, 65, 121, 77, 68, 73, 48, 77, 68, 69, 119, 77, 84, 65, 119, 77, 68, 65>>>> :>
        <<141, 84, 58, 134, 79, 40, 134, 161, 191, 212, 23, 194, 88, 99, 85, 211, 65, 97, 149, 112, 97, 3, 244, 239, 31, 182, 174, 0, 3, 77, 11, 223, 44, 141, 103, 90, 120, 233, 126, 218, 156, 241, 21, 149, 62, 226, 214, 250>>
    @@ <<<<>>, <<89, 83, 57, 122, 98, 51, 86, 121, 89, 50, 85, 118, 90, 103, 65, 121, 77, 68, 73, 48, 77, 68, 69, 119, 77, 84, 65, 119, 77, 68, 65, 61>>>> :>
        <<27, 43, 122, 131, 188, 17, 70, 129, 137, 224, 162, 5, 16, 12, 23, 3, 142, 105, 44, 124, 146, 162, 118, 207, 40, 211, 211, 114, 63, 127, 20, 227, 47, 188, 63, 123, 115, 62, 143, 67, 214, 9, 49, 239, 206, 86, 158, 55>>
    @@ <<<<>>, <<89, 83, 57, 122, 98, 51, 86, 121, 89, 50, 85, 118, 90, 103, 65, 121, 77, 68, 73, 48, 77, 68, 69, 119, 77, 84, 65, 119, 77, 68, 69>>>> :>
        <<235, 110, 37, 123, 197, 17, 162, 144, 31, 85, 162, 31, 165, 65, 74, 193, 232, 113, 5, 250, 80, 42, 9, 160, 151, 32, 117, 249, 121, 205, 113, 99, 208, 190, 162, 15, 239, 113, 62, 188, 101, 143, 80, 196, 73, 137, 114, 105>>
    @@ <<<<>>, <<89, 83, 57, 122, 98, 51, 86, 121, 89, 50, 85, 118, 90, 103, 65, 121, 77, 68, 73, 48, 77, 68, 69, 119, 77, 84, 65, 119, 77, 68, 69, 61>>>> :>
        <<12, 174, 71, 119, 242, 129, 53, 141, 172, 145, 141, 209, 253, 215, 199, 82, 120, 64, 198, 86, 26, 26, 233, 140, 61, 20, 253, 90, 57, 170, 116, 144, 25, 0, 182, 160, 188, 71, 82, 252, 68, 61, 233, 183, 0, 13, 219, 208>>
    @@ <<<<>>, <<89, 83, 57, 122, 98, 51, 86, 121, 89, 50, 85, 118, 90, 103, 65, 121, 77, 68, 73, 48, 77, 68, 69, 119, 77, 84, 65, 119, 77, 68, 73>>>> :>
        <<102, 81, 135, 143, 250, 208, 211, 180, 56, 209, 164, 211, 58, 211, 230, 33, 60, 79, 3, 194, 129, 215, 196, 111, 214, 200, 14, 51, 199, 180, 174, 164, 2, 143, 138, 46, 55, 205, 114, 193, 131, 115, 134, 135, 44, 21, 98, 195>>
    @@ <<<<>>, <<89, 83, 57, 122, 98, 51, 86, 121, 89, 50, 85, 118, 90, 103, 65, 121, 77, 68, 73, 48, 77, 68, 69, 119, 77, 84, 65, 119, 77, 68, 73, 61>>>> :>
        <<45, 40, 86, 60, 124, 47, 227, 173, 210, 66, 108, 33, 226, 137, 195, 183, 179, 26, 51, 243, 153, 158, 209, 132, 228, 223, 105, 248, 7, 20, 165, 119, 158, 227, 28, 159, 94, 200, 178, 67, 115, 10, 130, 35, 196, 161, 231, 209>>
    @@ <<<<>>, <<89, 83, 57, 122, 98, 51, 86, 121, 89, 50, 85, 118, 90, 103, 65, 121, 77, 68, 73, 48, 77, 68, 69, 119, 77, 84, 65, 119, 77, 68, 77>>>> :>
        <<50, 56, 85, 58, 79, 85, 165, 187, 94, 52, 141, 156, 145, 86, 173, 161, 76, 220, 150, 149, 8, 4, 180, 83, 110, 87, 92, 209, 192, 72, 100, 66, 150, 99, 114, 10, 70, 1, 114, 66, 6, 109, 239, 232, 182, 64, 46, 185>>
    @@ <<<<>>, <<89, 83, 57, 122, 98, 51, 86, 121, 89, 50, 85, 118, 90, 103, 65, 121, 77, 68, 73, 48, 77, 68, 69, 119, 77, 84, 65, 119, 77, 68, 77, 61>>>> :>
        <<81, 136, 167, 180, 156, 157, 153, 67, 203, 171, 245, 237, 216, 169, 43, 5, 220, 115, 43, 12, 177, 99, 110, 81, 157, 201, 124, 46, 176, 190, 133, 51, 94, 139, 30, 51, 92, 125, 94, 42, 177, 230, 158, 250, 48, 40, 66, 89>>
    @@ <<<<>>, <<89, 83, 57, 122, 98, 51, 86, 121, 89, 50, 85, 118, 90, 103, 65, 121, 77, 68, 73, 48, 77, 68, 69, 119, 77, 84, 65, 119, 77, 68, 81>>>> :>
        <<119, 159, 103, 0, 217, 35, 3, 164, 161, 21, 82, 68, 25, 70, 86, 85, 205, 198, 46, 89, 14, 5, 202, 156, 214, 227, 97, 161, 61, 99, 172, 116, 150, 215, 240, 182, 31, 179, 227, 210, 124, 39, 88, 30, 197, 242, 62, 36>>
    @@ <<<<>>, <<89, 83, 57, 122, 98, 51, 86, 121, 89, 50, 85, 118, 90, 103, 65, 121, 77, 68, 73, 48, 77, 68, 69, 119, 77, 84, 65, 119, 77, 68, 81, 61>>>> :>
        <<229, 156, 244, 179, 60, 53, 165, 238, 104, 40, 1, 169, 127, 208, 167, 69, 226, 239, 64, 72, 152, 122, 53, 32, 120, 128, 114, 112, 67, 196, 242, 229, 249, 60, 191, 179, 63, 212, 104, 200, 147, 222, 25, 51, 29, 47, 201, 79>>
    @@ <<<<>>, <<89, 83, 57, 122, 98, 51, 86, 121, 89, 50, 85, 118, 90, 103, 65, 121, 77, 68, 73, 122, 77, 84, 73, 122, 77, 84, 73, 122, 78, 81, 61, 61>>>> :>
        <<164, 42, 61, 84, 253, 101, 162, 12, 40, 119, 13, 74, 0, 226, 244, 191, 149, 196, 5, 220, 6, 251, 128, 197, 200, 213, 72, 115, 88, 92, 189, 137, 6, 80, 67, 233, 6, 78, 222, 15, 135, 25, 248, 115, 141, 110, 220, 146>>
    @@ <<<<>>, <<89, 83, 57, 122, 98, 51, 86, 121, 89, 50, 85, 118, 90, 103, 65, 121, 77, 68, 73, 122, 77, 84, 73, 122, 77, 84, 73, 122, 78, 84, 99>>>> :>
        <<230, 207, 111, 14, 185, 70, 153, 153, 97, 185, 50, 172, 205, 132, 163, 211, 134, 93, 161, 208, 242, 201, 20, 74, 14, 109, 174, 151, 75, 138, 115, 2, 92, 53, 14, 186, 238, 150, 238, 175, 136, 56, 9, 78, 3, 61, 254, 45>>
    @@ <<<<>>, <<89, 83, 57, 122, 98, 51, 86, 121, 89, 50, 85, 118, 90, 103, 65, 121, 77, 68, 73, 122, 77, 84, 73, 122, 77, 84, 73, 122, 78, 84, 99, 61>>>> :>
        <<133, 1, 248, 238, 135, 181, 232, 208, 248, 209, 21, 136, 119, 87, 220, 245, 148, 69, 106, 199, 72, 105, 151, 149, 175, 230, 253, 97, 238, 66, 188, 198, 126, 190, 59, 8, 172, 107, 181, 241, 48, 172, 60, 126, 208, 205, 254, 232>>
    @@ <<<<>>, <<89, 83, 57, 122, 98, 51, 86, 121, 89, 50, 85, 118, 90, 103, 65, 121, 77, 68, 73, 122, 77, 84, 73, 122, 77, 84, 73, 122, 78, 84, 103>>>> :>
        <<250, 232, 96, 234, 22, 109, 133, 94, 162, 219, 248, 195, 56, 57, 37, 206, 194, 247, 58, 76, 12, 252, 158, 178, 82, 184, 156, 175, 162, 56, 107, 23, 7, 186, 8, 56, 91, 61, 3, 2, 116, 4, 178, 17, 59, 199, 101, 191>>
    @@ <<<<>>, <<89, 83, 57, 122, 98, 51, 86, 121, 89, 50, 85, 118, 90, 103, 65, 121, 77, 68, 73, 122, 77, 84, 73, 122, 77, 84, 73, 122, 78, 84, 103, 61>>>> :>
        <<12, 83, 185, 76, 230, 144, 83, 99, 94, 125, 112, 34, 102, 236, 73, 181, 149, 170, 248, 131, 52, 205, 138, 247, 35, 167, 148, 108, 245, 44, 192, 87, 158, 77, 221, 87, 7, 13, 19, 147, 153, 250, 146, 238, 74, 175, 21, 55>>
    @@ <<<<>>, <<89, 83, 57, 122, 98, 51, 86, 121, 89, 50, 85, 118, 90, 103, 65, 121, 77, 68, 73, 122, 77, 84, 73, 122, 77, 84, 73, 122, 78, 84, 107>>>> :>
        <<231, 74, 189, 77, 41, 131, 235, 200, 7, 49, 185, 55, 166, 118, 114, 231, 166, 221, 211, 96, 123, 152, 150, 254, 176, 200, 70, 84, 184, 227, 25, 140, 2, 42, 117, 132, 95, 23, 147, 20, 38, 63, 112, 178, 250, 239, 224, 146>>
    @@ <<<<>>, <<89, 83, 57, 122, 98, 51, 86, 121, 89, 50, 85, 118, 90, 103, 65, 121, 77, 68, 73, 122, 77, 84, 73, 122, 77, 84, 73, 122, 78, 84, 107, 61>>>> :>
        <<75, 64, 49, 171, 248, 36, 121, 212, 120, 64, 13, 74, 183, 34, 212, 49, 157, 38, 115, 232, 212, 159, 171, 192, 21, 190, 227, 55, 41, 49, 194, 42, 5, 244, 110, 188, 41, 28, 118, 42, 91, 7, 138, 238, 40, 253, 246, 250>>
    @@ <<<<>>, <<89, 83, 57, 122, 98, 51, 86, 121, 89, 50, 85, 118, 90, 106, 65, 61>>>> :>
        <<78, 87, 163, 120, 54, 104, 220, 90, 159, 180, 184, 152, 66, 229, 238, 213, 97, 56, 114, 198, 243, 60, 131, 199, 45, 251, 52, 0, 79, 121, 37, 184, 231, 60, 150, 89, 87, 133, 242, 115, 238, 223, 194, 162, 196, 45, 128, 125>>
    @@ <<<<>>, <<89, 83, 57, 122, 98, 51, 86, 121, 89, 50, 85, 118, 90, 106, 73, 119, 77, 106, 77, 120, 77, 106, 77, 120, 77, 106, 77, 49, 78, 119, 61, 61>>>> :>
        <<131, 12, 22, 144, 192, 149, 57, 5, 56, 149, 140, 58, 159, 26, 14, 17, 54, 164, 195, 152, 236, 124, 119, 107, 206, 231, 155, 164, 3, 173, 112, 181, 131, 210, 47, 70, 195, 7, 237, 230, 25, 112, 233, 103, 19, 62, 84, 84>>
    @@ <<<<>>, <<89, 83, 57, 122, 98, 51, 86, 121, 89, 50, 85, 118, 90, 106, 73, 119, 77, 106, 77, 120, 77, 106, 77, 120, 77, 106, 77, 49, 79, 65, 61, 61>>>> :>
        <<149, 126, 97, 215, 157, 213, 84, 122, 183, 54, 178, 7, 46, 77, 158, 225, 131, 95, 186, 179, 157, 186, 199, 129, 110, 11, 5, 253, 47, 68, 200, 244, 21, 160, 8, 240, 61, 141, 106, 148, 117, 177, 26, 22, 48, 203, 67, 208>>
    @@ <<<<>>, <<89, 83, 57, 122, 98, 51, 86, 121, 89, 50, 85, 118, 90, 106, 73, 119, 77, 106, 77, 120, 77, 106, 77, 120, 77, 106, 77, 49, 79, 81, 61, 61>>>> :>
        <<138, 199, 64, 19, 65, 5, 56, 136, 137, 131, 41, 66, 85, 162, 201, 49, 238, 167, 9, 71, 62, 125, 130, 132, 130, 223, 174, 106, 196, 11, 193, 101, 62, 48, 180, 74, 136, 60, 216, 85, 233, 243, 225, 140, 111, 7, 231, 234>>
    @@ <<<<>>, <<89, 83, 57, 122, 98, 51, 86, 121, 89, 50, 85, 118, 90, 106, 73, 119, 77, 106, 81, 119, 77, 84, 65, 120, 77, 68, 65, 119, 77, 65, 61, 61>>>> :>
        <<208, 28, 182, 109, 147, 184, 110, 171, 196, 3, 2, 245, 97, 181, 82, 1, 68, 158, 6, 133, 80, 92, 157, 227, 230, 36, 189, 113, 26, 2, 107, 158, 176, 240, 0, 213, 16, 44, 183, 94, 141, 189, 104, 218, 41, 75, 136, 191>>
    @@ <<<<>>, <<89, 83, 57, 122, 98, 51, 86, 121, 89, 50, 85, 118, 90, 106, 73, 119, 77, 106, 81, 119, 77, 84, 65, 120, 77, 68, 65, 119, 77, 81, 61, 61>>>> :>
        <<58, 14, 184, 191, 92, 233, 59, 163, 205, 99, 165, 171, 216, 236, 89, 109, 188, 117, 213, 250, 154, 114, 76, 164, 132, 170, 66, 48, 49, 123, 185, 68, 237, 187, 79, 166, 230, 195, 7, 119, 83, 100, 126, 207, 204, 118, 21, 67>>
    @@ <<<<>>, <<89, 83, 57, 122, 98, 51, 86, 121, 89, 50, 85, 118, 90, 106, 73, 119, 77, 106, 81, 119, 77, 84, 65, 120, 77, 68, 65, 119, 77, 103, 61, 61>>>> :>
        <<89, 219, 18, 63, 36, 13, 200, 30, 148, 63, 80, 73, 174, 183, 9, 75, 212, 238, 136, 13, 90, 236, 166, 166, 76, 45, 52, 187, 195, 194, 47, 111, 182, 213, 158, 71, 182, 197, 211, 251, 84, 158, 115, 219, 171, 6, 124, 7>>
    @@ <<<<>>, <<89, 83, 57, 122, 98, 51, 86, 121, 89, 50, 85, 118, 90, 106, 73, 119, 77, 106, 81, 119, 77, 84, 65, 120, 77, 68, 65, 119, 77, 119, 61, 61>>>> :>
        <<38, 13, 105, 119, 50, 39, 21, 106, 125, 217, 185, 81, 123, 176, 238, 37, 115, 250, 64, 239, 243, 91, 166, 134, 245, 42, 96, 209, 204, 151, 163, 90, 45, 5, 212, 221, 221, 126, 27, 254, 43, 17, 80, 3, 94, 134, 179, 212>>
    @@ <<<<>>, <<89, 83, 57, 122, 98, 51, 86, 121, 89, 50, 85, 118, 90, 106, 73, 119, 77, 106, 81, 119, 77, 84, 65, 120, 77, 68, 65, 119, 78, 65, 61, 61>>>> :>
        <<31, 71, 185, 93, 149, 158, 254, 203, 219, 151, 239, 150, 228, 114, 127, 112, 200, 163, 94, 55, 246, 101, 216, 26, 231, 19, 15, 165, 175, 123, 196, 88, 39, 214, 247, 49, 170, 25, 28, 230, 207, 172, 191, 18, 58, 117, 186, 153>>
    @@ <<<<>>, <<89, 83, 57, 122, 98, 51, 86, 121, 89, 50, 85, 118, 119, 54, 107, 117, 99, 65, 65>>>> :>
        <<237, 199, 190, 159, 203, 101, 2, 42, 205, 5, 33, 61, 142, 172, 90, 93, 102, 233, 152, 74, 130, 101, 85, 231, 7, 127, 197, 160, 50, 222, 131, 110, 4, 254, 111, 87, 128, 202, 126, 145, 3, 122, 150, 99, 60, 136, 100, 233>>
    @@ <<<<>>, <<89, 83, 57, 122, 98, 51, 86, 121, 89, 50, 85, 118, 119, 54, 107, 117, 99, 65, 65, 61>>>> :>
        <<76, 69, 133, 235, 121, 79, 52, 91, 80, 193, 52, 2, 182, 157, 233, 108, 101, 93, 241, 38, 145, 88, 54, 227, 111, 167, 126, 247, 191, 59, 85, 16, 104, 125, 225, 11, 151, 115, 83, 111, 233, 54, 40, 25, 50, 1, 80, 184>>
    @@ <<<<>>, <<89, 83, 57, 122, 98, 51, 86, 121, 89, 50, 85, 118, 119, 54, 107, 117, 99, 65, 65, 119>>>> :>
        <<16, 189, 80, 138, 184, 155, 108, 5, 248, 66, 214, 162, 62, 173, 59, 137, 219, 81, 133, 108, 133, 202, 0, 214, 202, 90, 234, 105, 85, 254, 21, 201, 170, 194, 62, 33, 33, 219, 247, 30, 139, 112, 123, 182, 71, 40, 185, 87>>
    @@ <<<<>>, <<89, 83, 57, 122, 98, 51, 86, 121, 89, 50, 85, 118, 119, 54, 107, 117, 99, 65, 65, 121, 77, 68, 73, 48, 77, 68, 69, 119, 77, 84, 65, 119, 77, 65, 61, 61>>>> :>
        <<144, 162, 122, 174, 239, 235, 62, 82, 90, 165, 40, 242, 239, 98, 209, 137, 101, 7, 173, 125, 186, 1, 45, 100, 213, 184, 156, 132, 141, 205, 66, 111, 152, 252, 104, 241, 36, 69, 142, 98, 193, 147, 96, 228, 8, 53, 42, 56>>
    @@ <<<<>>, <<89, 83, 57, 122, 98, 51, 86, 121, 89, 50, 85, 118, 119, 54, 107, 117, 99, 65, 65, 121, 77, 68, 73, 48, 77, 68, 69, 119, 77, 84, 65, 119, 77, 68, 65>>>> :>
        <<206, 220, 5, 50, 50, 105, 213, 179, 223, 235, 209, 55, 85, 232, 241, 14, 160, 41, 65, 232, 114, 199, 185, 208, 53, 135, 131, 233, 127, 183, 217, 188, 167, 72, 73, 158, 57, 133, 107, 137, 185, 125, 83, 192, 134, 184, 24, 65>>
    @@ <<<<>>, <<89, 83, 57, 122, 98, 51, 86, 121, 89, 50, 85, 118, 119, 54, 107, 117, 99, 65, 65, 121, 77, 68, 73, 48, 77, 68, 69, 119, 77, 84, 65, 119, 77, 68, 65, 61>>>> :>
        <<167, 241, 33, 240, 129, 238, 110, 248, 200, 19, 255, 88, 20, 210, 163, 156, 110, 127, 134, 140, 191, 77, 17, 181, 171, 227, 255, 25, 195, 76, 155, 42, 227, 251, 34, 253, 90, 116, 216, 146, 131, 173, 6, 239, 179, 134, 178, 79>>
    @@ <<<<>>, <<89, 83, 57, 122, 98, 51, 86, 121, 89, 50, 85, 118, 119, 54, 107, 117, 99, 65, 65, 121, 77, 68, 73, 48, 77, 68, 69, 119, 77, 84, 65, 119, 77, 68, 69>>>> :>
        <<91, 189, 175, 158, 167, 152, 40, 245, 64, 112, 98, 107, 216, 25, 132, 171, 23, 247, 28, 238, 13, 142, 217, 193, 7, 197, 188, 54, 162, 78, 14, 154, 10, 206, 246, 47, 79, 253, 3, 247, 155, 182, 202, 92, 213, 224, 221, 200>>
    @@ <<<<>>, <<89, 83, 57, 122, 98, 51, 86, 121, 89, 50, 85, 118, 119, 54, 107, 117, 99, 65, 65, 121, 77, 68, 73, 48, 77, 68, 69, 119, 77, 84, 65, 119, 77, 68, 69, 61>>>> :>
        <<171, 160, 25, 180, 4, 77, 50, 62, 135, 137, 134, 34, 62, 43, 146, 152, 237, 190, 227, 61, 117, 172, 183, 180, 214, 254, 128, 154, 46, 112, 114, 21, 217, 144, 111, 254, 114, 66, 191, 56, 87, 140, 97, 86, 231, 26, 106, 221>>
    @@ <<<<>>, <<89, 83, 57, 122, 98, 51, 86, 121, 89, 50, 85, 118, 119, 54, 107, 117, 99, 65, 65, 121, 77, 68, 73, 48, 77, 68, 69, 119, 77, 84, 65, 119, 77, 68, 73>>>> :>
        <<132, 122, 23, 118, 65, 170, 194, 93, 255, 230, 207, 171, 167, 23, 145, 142, 198, 39, 51, 22, 166, 200, 93, 49, 136, 102, 144, 229, 248, 67, 13, 228, 124, 192, 112, 219, 144, 238, 217, 236, 201, 74, 158, 252, 66, 148, 38, 237>>
    @@ <<<<>>, <<89, 83, 57, 122, 98, 51, 86, 121, 89, 50, 85, 118, 119, 54, 107, 117, 99, 65, 65, 121, 77, 68, 73, 48, 77, 68, 69, 119, 77, 84, 65, 119, 77, 68, 73, 61>>>> :>
        <<132, 190, 236, 77, 151, 40, 231, 85, 184, 231, 37, 192, 39, 85, 146, 249, 114, 29, 146, 20, 129, 128, 50, 231, 177, 68, 63, 75, 222, 52, 163, 210, 132, 210, 130, 168, 36, 58, 219, 40, 53, 19, 46, 122, 173, 209, 26, 127>>
    @@ <<<<>>, <<89, 83, 57, 122, 98, 51, 86, 121, 89, 50, 85, 118, 119, 54, 107, 117, 99, 65, 65, 121, 77, 68, 73, 48, 77, 68, 69, 119, 77, 84, 65, 119, 77, 68, 77>>>> :>
        <<155, 46, 183, 233, 165, 43, 190, 65, 206, 188, 222, 80, 237, 181, 128, 92, 98, 200, 237, 7, 229, 186, 154, 24, 207, 5, 250, 35, 165, 21, 128, 217, 191, 33, 142, 23, 115, 34, 229, 87, 99, 218, 104, 137, 14, 226, 237, 248>>
    @@ <<<<>>, <<89, 83, 57, 122, 98, 51, 86, 121, 89, 50, 85, 118, 119, 54, 107, 117, 99, 65, 65, 121, 77, 68, 73, 48, 77, 68, 69, 119, 77, 84, 65, 119, 77, 68, 77, 61>>>> :>
        <<33, 22, 254, 115, 225, 9, 22, 212, 13, 96, 203, 225, 240, 146, 217, 210, 43, 231, 0, 88, 144, 35, 184, 235, 249, 20, 195, 41, 3, 128, 70, 58, 0, 147, 103, 212, 208, 148, 166, 121, 30, 74, 206, 10, 36, 73, 101, 35>>
    @@ <<<<>>, <<89, 83, 57, 122, 98, 51, 86, 121, 89, 50, 85, 118, 119, 54, 107, 117, 99, 65, 65, 121, 77, 68, 73, 48, 77, 68, 69, 119, 77, 84, 65, 119, 77, 68, 81>>>> :>
        <<75, 252, 13, 118, 12, 53, 205, 92, 253, 46, 3, 234, 142, 150, 142, 146, 58, 164, 104, 185, 104, 168, 122, 159, 197, 241, 90, 121, 161, 208, 7, 109, 135, 147, 57, 196, 157, 248, 145, 216, 157, 196, 22, 27, 168, 147, 212, 190>>
    @@ <<<<>>, <<89, 83, 57, 122, 98, 51, 86, 121, 89, 50, 85, 118, 119, 54, 107, 117, 99, 65, 65, 121, 77, 68, 73, 48, 77, 68, 69, 119, 77, 84, 65, 119, 77, 68, 81, 61>>>> :>
        <<147, 120, 217, 48, 33, 82, 17, 22, 77, 128, 27, 103, 8, 187, 37, 142, 31, 226, 128, 131, 78, 145, 199, 77, 195, 24, 244, 110, 235, 89, 88, 90, 62, 108, 228, 64, 146, 12, 144, 75, 118, 119, 174, 180, 109, 157, 61, 198>>
    @@ <<<<>>, <<89, 83, 57, 122, 98, 51, 86, 121, 89, 50, 85, 118, 119, 54, 107, 117, 99, 65, 65, 121, 77, 68, 73, 122, 77, 84, 73, 122, 77, 84, 73, 122, 78, 81, 61, 61>>>> :>
        <<49, 72, 57, 61, 59, 168, 133, 247, 165, 90, 32, 228, 198, 42, 170, 221, 126, 184, 15, 37, 254, 191, 8, 253, 9, 236, 193, 142, 247, 188, 133, 124, 67, 174, 92, 123, 25, 24, 176, 83, 166, 175, 203, 249, 219, 125, 73, 217>>
    @@ <<<<>>, <<89, 83, 57, 122, 98, 51, 86, 121, 89, 50, 85, 118, 119, 54, 107, 117, 99, 65, 65, 121, 77, 68, 73, 122, 77, 84, 73, 122, 77, 84, 73, 122, 78, 84, 99>>>> :>
        <<97, 49, 126, 42, 166, 122, 135, 87, 96, 103, 190, 177, 70, 54, 41, 75, 110, 95, 16, 187, 59, 5, 143, 53, 243, 0, 202, 152, 196, 105, 247, 218, 121, 20, 136, 70, 43, 248, 54, 48, 201, 214, 100, 222, 120, 203, 47, 20>>
    @@ <<<<>>, <<89, 83, 57, 122, 98, 51, 86, 121, 89, 50, 85, 118, 119, 54, 107, 117, 99, 65, 65, 121, 77, 68, 73, 122, 77, 84, 73, 122, 77, 84, 73, 122, 78, 84, 99, 61>>>> :>
        <<50, 38, 146, 255, 213, 164, 122, 52, 40, 25, 220, 31, 92, 50, 0, 79, 130, 45, 69, 234, 235, 9, 220, 46, 194, 117, 78, 26, 92, 212, 162, 166, 144, 130, 150, 254, 39, 40, 248, 42, 30, 8, 32, 191, 48, 50, 10, 38>>
    @@ <<<<>>, <<89, 83, 57, 122, 98, 51, 86, 121, 89, 50, 85, 118, 119, 54, 107, 117, 99, 65, 65, 121, 77, 68, 73, 122, 77, 84, 73, 122, 77, 84, 73, 122, 78, 84, 103>>>> :>
        <<77, 217, 71, 28, 204, 250, 209, 140, 57, 6, 179, 199, 59, 157, 176, 94, 198, 240, 147, 86, 221, 148, 239, 165, 5, 100, 157, 235, 164, 150, 114, 195, 168, 211, 56, 68, 160, 60, 119, 213, 234, 118, 90, 202, 132, 251, 89, 215>>
    @@ <<<<>>, <<89, 83, 57, 122, 98, 51, 86, 121, 89, 50, 85, 118, 119, 54, 107, 117, 99, 65, 65, 121, 77, 68, 73, 122, 77, 84, 73, 122, 77, 84, 73, 122, 78, 84, 103, 61>>>> :>
        <<146, 239, 95, 33, 181, 242, 246, 131, 224, 144, 84, 226, 204, 85, 127, 9, 17, 74, 187, 204, 127, 183, 129, 160, 29, 66, 174, 80, 167, 144, 86, 122, 241, 114, 121, 7, 188, 69, 172, 241, 205, 1, 112, 17, 231, 215, 125, 197>>
    @@ <<<<>>, <<89, 83, 57, 122, 98, 51, 86, 121, 89, 50, 85, 118, 119, 54, 107, 117, 99, 65, 65, 121, 77, 68, 73, 122, 77, 84, 73, 122, 77, 84, 73, 122, 78, 84, 107>>>> :>
        <<162, 185, 210, 179, 63, 84, 40, 216, 95, 120, 15, 211, 27, 133, 237, 248, 253, 232, 94, 110, 131, 181, 195, 252, 40, 187, 20, 168, 122, 100, 167, 207, 49, 250, 64, 229, 228, 189, 147, 241, 133, 160, 143, 230, 60, 245, 118, 237>>
    @@ <<<<>>, <<89, 83, 57, 122, 98, 51, 86, 121, 89, 50, 85, 118, 119, 54, 107, 117, 99, 65, 65, 121, 77, 68, 73, 122, 77, 84, 73, 122, 77, 84, 73, 122, 78, 84, 107, 61>>>> :>
        <<25, 66, 224, 133, 238, 53, 167, 253, 234, 242, 2, 99, 44, 36, 4, 132, 237, 242, 79, 40, 230, 163, 16, 213, 179, 143, 134, 63, 41, 168, 213, 1, 142, 29, 44, 143, 83, 185, 184, 39, 195, 210, 58, 21, 78, 132, 40, 51>>
    @@ <<<<>>, <<89, 83, 57, 122, 98, 51, 86, 121, 89, 50, 85, 118, 119, 54, 107, 117, 99, 68, 65, 61>>>> :>
        <<73, 122, 211, 46, 53, 162, 87, 17, 216, 220, 142, 104, 105, 3, 21, 222, 166, 43, 130, 86, 217, 241, 102, 13, 143, 93, 253, 67, 5, 126, 110, 71, 164, 58, 225, 23, 81, 180, 188, 137, 251, 139, 214, 133, 71, 81, 76, 236>>
    @@ <<<<>>, <<89, 83, 57, 122, 98, 51, 86, 121, 89, 50, 85, 118, 119, 54, 107, 117, 99, 68, 73, 119, 77, 106, 77, 120, 77, 106, 77, 120, 77, 106, 77, 49, 78, 119, 61, 61>>>> :>
        <<148, 59, 5, 169, 59, 164, 164, 220, 44, 192, 4, 140, 36, 127, 116, 6, 230, 191, 75, 177, 30, 119, 98, 160, 64, 177, 20, 38, 184, 36, 207, 199, 183, 153, 122, 169, 206, 189, 135, 150, 197, 246, 144, 127, 202, 208, 63, 13>>
    @@ <<<<>>, <<89, 83, 57, 122, 98, 51, 86, 121, 89, 50, 85, 118, 119, 54, 107, 117, 99, 68, 73, 119, 77, 106, 77, 120, 77, 106, 77, 120, 77, 106, 77, 49, 79, 65, 61, 61>>>> :>
        <<193, 11, 22, 245, 44, 237, 207, 85, 252, 205, 10, 59, 53, 234, 92, 19, 48, 40, 5, 51, 129, 120, 144, 48, 57, 167, 21, 236, 202, 52, 244, 73, 235, 194, 1, 176, 45, 213, 34, 186, 174, 55, 226, 132, 87, 199, 115, 162>>
    @@ <<<<>>, <<89, 83, 57, 122, 98, 51, 86, 121, 89, 50, 85, 118, 119, 54, 107, 117, 99, 68, 73, 119, 77, 106, 77, 120, 77, 106, 77, 120, 77, 106, 77, 49, 79, 81, 61, 61>>>> :>
        <<110, 92, 145, 60, 103, 30, 231, 133, 79, 140, 61, 119, 90, 189, 217, 211, 29, 150, 111, 224, 96, 123, 255, 137, 137, 51, 25, 254, 225, 141, 254, 153, 121, 151, 27, 249, 46, 247, 47, 15, 13, 64, 133, 122, 194, 150, 178, 250>>
    @@ <<<<>>, <<89, 83, 57, 122, 98, 51, 86, 121, 89, 50, 85, 118, 119, 54, 107, 117, 99, 68, 73, 119, 77, 106, 81, 119, 77, 84, 65, 120, 77, 68, 65, 119, 77, 65, 61, 61>>>> :>
        <<107, 210, 98, 100, 12, 207, 153, 131, 210, 223, 173, 53, 135, 227, 214, 192, 3, 166, 226, 119, 49, 64, 95, 151, 223, 96, 96, 190, 198, 204, 232, 158, 209, 245, 200, 240, 92, 63, 192, 99, 113, 178, 165, 240, 225, 76, 216, 86>>
    @@ <<<<>>, <<89, 83, 57, 122, 98, 51, 86, 121, 89, 50, 85, 118, 119, 54, 107, 117, 99, 68, 73, 119, 77, 106, 81, 119, 77, 84, 65, 120, 77, 68, 65, 119, 77, 81, 61, 61>>>> :>
        <<202, 14, 62, 249, 58, 17, 19, 139, 114, 171, 1, 119, 147, 90, 96, 116, 82, 28, 240, 210, 43, 80, 150, 32, 156, 60, 221, 143, 11, 236, 34, 77, 79, 43, 96, 201, 43, 238, 115, 147, 15, 218, 154, 175, 37, 238, 53, 174>>
    @@ <<<<>>, <<89, 83, 57, 122, 98, 51, 86, 121, 89, 50, 85, 118, 119, 54, 107, 117, 99, 68, 73, 119, 77, 106, 81, 119, 77, 84, 65, 120, 77, 68, 65, 119, 77, 103, 61, 61>>>> :>
        <<42, 14, 77, 158, 238, 218, 176, 74, 0, 100, 106, 100, 149, 11, 165, 183, 243, 248, 145, 3, 242, 11, 89, 238, 62, 6, 69, 195, 251, 85, 32, 117, 244, 186, 206, 184, 136, 51, 184, 107, 194, 137, 82, 141, 176, 179, 196, 182>>
    @@ <<<<>>, <<89, 83, 57, 122, 98, 51, 86, 121, 89, 50, 85, 118, 119, 54, 107, 117, 99, 68, 73, 119, 77, 106, 81, 119, 77, 84, 65, 120, 77, 68, 65, 119, 77, 119, 61, 61>>>> :>
        <<48, 204, 66, 133, 98, 188, 179, 223, 132, 184, 88, 111, 240, 2, 55, 159, 188, 71, 67, 17, 239, 112, 137, 126, 168, 127, 157, 81, 45, 163, 124, 225, 45, 60, 55, 19, 120, 100, 24, 206, 73, 217, 14, 31, 4, 53, 171, 91>>
    @@ <<<<>>, <<89, 83, 57, 122, 98, 51, 86, 121, 89, 50, 85, 118, 119, 54, 107, 117, 99, 68, 73, 119, 77, 106, 81, 119, 77, 84, 65, 120, 77, 68, 65, 119, 78, 65, 61, 61>>>> :>
        <<145, 247, 96, 203, 204, 189, 13, 237, 195, 79, 7, 147, 55, 236, 27, 147, 132, 175, 157, 22, 153, 86, 162, 106, 203, 71, 1, 147, 199, 171, 209, 55, 228, 142, 143, 36, 164, 166, 138, 86, 48, 9, 169, 115, 127, 10, 160, 242>>
    @@ <<<<>>, <<97>>>> :>
        <<92, 23, 125, 91, 45, 235, 172, 56, 220, 211, 88, 234, 121, 144, 146, 107, 48, 230, 37, 132, 229, 43, 34, 94, 203, 165, 31, 48, 100, 223, 153, 106, 76, 116, 90, 41, 40, 24, 247, 131, 168, 88, 211, 151, 175, 104, 41, 140>>
    @@ <<<<>>, <<195, 169>>>> :>
        <<103, 66, 240, 173, 162, 92, 129, 156, 170, 249, 133, 250, 242, 190, 107, 127, 149, 131, 61, 191, 147, 13, 234, 172, 105, 3, 179, 161, 43, 70, 79, 1, 215, 115, 107, 230, 229, 83, 137, 183, 87, 99, 245, 55, 118, 204, 173, 40>>
    @@ <<<<107>>, <<>>>> :>
        <<184, 217, 241, 231, 54, 58, 152, 30, 125, 214, 183, 158, 101, 46, 10, 43, 4, 138, 56, 190, 114, 250, 7, 46, 239, 98, 200, 186, 156, 19, 206, 103, 29, 230, 155, 105, 152, 35, 203, 222, 110, 230, 199, 21, 51, 142, 57, 163>>
    @@ <<<<107>>, <<55>>>> :>
        <<7, 1, 254, 235, 194, 53, 103, 15, 107, 116, 223, 59, 239, 182, 40, 199, 250, 37, 35, 3, 22, 191, 169, 239, 11, 175, 220, 163, 122, 95, 246, 30, 200, 20, 33, 187, 56, 79, 88, 51, 102, 145, 100, 206, 114, 79, 98, 168>>
    @@ <<<<107>>, <<65, 65, 65, 65>>>> :>
        <<97, 17, 42, 218, 131, 193, 57, 210, 106, 205, 13, 197, 38, 183, 25, 40, 132, 68, 34, 181, 57, 152, 192, 156, 224, 3, 8, 169, 93, 175, 134, 238, 254, 27, 224, 17, 240, 179, 74, 88, 255, 76, 128, 94, 186, 215, 130, 205>>
    @@ <<<<107>>, <<89, 83, 57, 107, 90, 88, 74, 112, 100, 109, 86, 107, 76, 50, 89, 65>>>> :>
        <<18, 232, 48, 165, 55, 80, 90, 15, 83, 228, 15, 164, 144, 146, 176, 234, 105, 177, 124, 33, 57, 110, 102, 88, 15, 200, 0, 49, 75, 123, 132, 112, 59, 240, 25, 224, 81, 47, 96, 96, 19, 239, 243, 149, 142, 27, 131, 57>>
    @@ <<<<107>>, <<89, 83, 57, 107, 90, 88, 74, 112, 100, 109, 86, 107, 76, 50, 89, 65, 77, 65, 61>>>> :>
        <<77, 149, 158, 0, 156, 198, 152, 102, 125, 86, 213, 47, 23, 38, 115, 223, 160, 185, 123, 142, 51, 4, 191, 121, 240, 228, 28, 183, 54, 3, 62, 93, 139, 56, 128, 87, 105, 9, 149, 129, 191, 40, 27, 195, 104, 167, 119, 34>>
    @@ <<<<107>>, <<89, 83, 57, 107, 90, 88, 74, 112, 100, 109, 86, 107, 76, 50, 89, 65, 77, 65, 61, 61>>>> :>
        <<100, 122, 194, 55, 173, 38, 113, 156, 226, 156, 82, 71, 186, 128, 185, 246, 131, 125, 113, 155, 61, 191, 72, 6, 52, 69, 44, 186, 145, 198, 189, 151, 227, 14, 169, 251, 132, 159, 59, 31, 44, 226, 35, 249, 147, 165, 81, 77>>
    @@ <<<<107>>, <<89, 83, 57, 107, 90, 88, 74, 112, 100, 109, 86, 107, 76, 50, 89, 65, 77, 106, 65, 121, 77, 122, 69, 121, 77, 122, 69, 121, 77, 122, 85>>>> :>
        <<39, 82, 57, 69, 228, 166, 136, 22, 16, 162, 152, 47, 223, 142, 174, 51, 227, 38, 160, 152, 254, 101, 109, 199, 85, 147, 110, 32, 88, 14, 150, 139, 81, 94, 10, 117, 110, 37, 87, 70, 186, 192, 179, 167, 201, 230, 143, 34>>
    @@ <<<<107>>, <<89, 83, 57, 107, 90, 88, 74, 112, 100, 109, 86, 107, 76, 50, 89, 65, 77, 106, 65, 121, 77, 122, 69, 121, 77, 122, 69, 121, 77, 122, 85, 51>>>> :>
        <<15, 159, 92, 164, 134, 152, 238, 121, 73, 170, 201, 63, 128, 78, 34, 87, 170, 243, 230, 255, 103, 204, 88, 58, 147, 251, 80, 44, 157, 198, 167, 247, 225, 185, 36, 251, 50, 12, 152, 76, 103, 231, 96, 103, 242, 168, 127, 226>>
    @@ <<<<107>>, <<89, 83, 57, 107, 90, 88, 74, 112, 100, 109, 86, 107, 76, 50, 89, 65, 77, 106, 65, 121, 77, 122, 69, 121, 77, 122, 69, 121, 77, 122, 85, 52>>>> :>
        <<194, 218, 40, 103, 103, 185, 23, 44, 175, 107, 228, 1, 201, 136, 88, 244, 152, 79, 61, 193, 66, 143, 237, 63, 248, 187, 191, 231, 84, 77, 158, 212, 56, 135, 115, 89, 218, 74, 162, 113, 244, 161, 89, 238, 40, 157, 149, 169>>
    @@ <<<<107>>, <<89, 83, 57, 107, 90, 88, 74, 112, 100, 109, 86, 107, 76, 50, 89, 65, 77, 106, 65, 121, 77, 122, 69, 121, 77, 122, 69, 121, 77, 122, 85, 53>>>> :>
        <<186, 60, 210, 178, 106, 84, 150, 39, 217, 50, 129, 247, 218, 202, 7, 113, 167, 16, 237, 124, 245, 232, 235, 62, 212, 255, 229, 197, 84, 137, 212, 217, 82, 54, 11, 158, 233, 192, 131, 249, 80, 149, 165, 68, 197, 184, 227, 43>>
    @@ <<<<107>>, <<89, 83, 57, 107, 90, 88, 74, 112, 100, 109, 86, 107, 76, 50, 89, 65, 77, 106, 65, 121, 77, 122, 69, 121, 77, 122, 69, 121, 77, 122, 85, 61>>>> :>
        <<191, 117, 229, 92, 75, 199, 186, 205, 131, 94, 50, 148, 29, 189, 148, 192, 60, 60, 45, 0, 92, 113, 224, 12, 62, 91, 138, 161, 228, 230, 19, 231, 189, 212, 162, 172, 71, 212, 95, 172, 66, 7, 26, 150, 81, 136, 90, 22>>
    @@ <<<<107>>, <<89, 83, 57, 107, 90, 88, 74, 112, 100, 109, 86, 107, 76, 50, 89, 65, 77, 106, 65, 121, 78, 68, 65, 120, 77, 68, 69, 119, 77, 68, 65>>>> :>
        <<98, 75, 55, 43, 221, 44, 49, 47, 66, 42, 219, 167, 125, 46, 128, 5, 120, 92, 255, 222, 91, 158, 161, 213, 200, 94, 145, 134, 150, 206, 51, 14, 182, 224, 102, 177, 73, 241, 176, 25, 88, 79, 238, 135, 31, 69, 243, 178>>
    @@ <<<<107>>, <<89, 83, 57, 107, 90, 88, 74, 112, 100, 109, 86, 107, 76, 50, 89, 65, 77, 106, 65, 121, 78, 68, 65, 120, 77, 68, 69, 119, 77, 68, 65, 48>>>> :>
        <<197, 172, 254, 72, 126, 246, 159, 184, 15, 201, 152, 57, 5, 113, 66, 139, 161, 221, 57, 232, 47, 15, 129, 47, 169, 79, 176, 41, 150, 203, 37, 14, 196, 82, 209, 67, 235, 169, 161, 178, 33, 217, 125, 41, 239, 102, 246, 60>>
    @@ <<<<107>>, <<89, 83, 57, 107, 90, 88, 74, 112, 100, 109, 86, 107, 76, 50, 89, 65, 77, 106, 65, 121, 78, 68, 65, 120, 77, 68, 69, 119, 77, 68, 65, 61>>>> :>
        <<35, 95, 96, 179, 125, 214, 124, 255, 220, 118, 114, 172, 249, 88, 249, 93, 120, 161, 24, 34, 248, 7, 177, 93, 220, 206, 84, 171, 79, 73, 26, 223, 205, 170, 8, 27, 141, 36, 147, 70, 49, 90, 245, 7, 53, 199, 120, 24>>
    @@ <<<<107>>, <<89, 83, 57, 107, 90, 88, 74, 112, 100, 109, 86, 107, 76, 50, 89, 65, 77, 106, 65, 121, 78, 68, 65, 120, 77, 68, 69, 119, 77, 68, 65, 119>>>> :>
        <<13, 71, 32, 90, 225, 57, 29, 122, 98, 29, 53, 131, 177, 89, 125, 55, 99, 249, 161, 14, 225, 4, 244, 18, 225, 155, 89, 17, 175, 154, 29, 171, 120, 136, 199, 136, 101, 30, 93, 56, 227, 234, 23, 5, 71, 60, 113, 189>>
    @@ <<<<107>>, <<89, 83, 57, 107, 90, 88, 74, 112, 100, 109, 86, 107, 76, 50, 89, 65, 77, 106, 65, 121, 78, 68, 65, 120, 77, 68, 69, 119, 77, 68, 65, 120>>>> :>
        <<226, 107, 231, 163, 246, 28, 87, 8, 172, 122, 207, 25, 167, 244, 206, 111, 138, 64, 211, 157, 89, 248, 33, 49, 65, 165, 73, 79, 76, 10, 110, 205, 196, 124, 25, 10, 231, 225, 158, 252, 69, 22, 215, 39, 140, 188, 247, 154>>
    @@ <<<<107>>, <<89, 83, 57, 107, 90, 88, 74, 112, 100, 109, 86, 107, 76, 50, 89, 65, 77, 106, 65, 121, 78, 68, 65, 120, 77, 68, 69, 119, 77, 68, 65, 121>>>> :>
        <<172, 150, 201, 248, 112, 8, 205, 192, 54, 199, 22, 135, 149, 129, 206, 136, 92, 44, 82, 77, 201, 157, 247, 67, 18, 90, 146, 215, 216, 17, 170, 176, 73, 219, 149, 136, 97, 14, 18, 78, 22, 131, 215, 128, 51, 49, 1, 23>>
    @@ <<<<107>>, <<89, 83, 57, 107, 90, 88, 74, 112, 100, 109, 86, 107, 76, 50, 89, 65, 77, 106, 65, 121, 78, 68, 65, 120, 77, 68, 69, 119, 77, 68, 65, 122>>>> :>
        <<30, 248, 111, 58, 52, 54, 122, 239, 81, 105, 22, 129, 79, 161, 219, 121, 34, 219, 163, 142, 140, 236, 123, 195, 236, 205, 39, 233, 118, 254, 253, 80, 45, 132, 97, 194, 185, 148, 162, 206, 112, 145, 57, 107, 12, 31, 12, 169>>
    @@ <<<<107>>, <<89, 83, 57, 107, 90, 88, 74, 112, 100, 109, 86, 107, 76, 50, 89, 119>>>> :>
        <<230, 38, 133, 234, 17, 104, 50, 183, 35, 183, 69, 211, 103, 99, 226, 144, 64, 124, 222, 79, 235, 53, 160, 67, 36, 6, 113, 191, 88, 9, 117, 176, 84, 87, 174, 95, 89, 106, 164, 138, 254, 153, 134, 17, 207, 106, 171, 86>>
    @@ <<<<107>>, <<89, 83, 57, 107, 90, 88, 74, 112, 100, 109, 86, 107, 76, 50, 89, 121, 77, 68, 73, 48, 77, 68, 69, 119, 77, 84, 65, 119, 77, 68, 65, 61>>>> :>
        <<187, 152, 166, 36, 132, 182, 253, 23, 14, 135, 64, 177, 153, 246, 126, 93, 220, 84, 138, 88, 180, 66, 62, 1, 187, 136, 26, 128, 1, 141, 149, 187, 196, 215, 35, 45, 241, 183, 9, 226, 151, 180, 255, 22, 109, 244, 235, 216>>
    @@ <<<<107>>, <<89, 83, 57, 107, 90, 88, 74, 112, 100, 109, 86, 107, 76, 50, 89, 121, 77, 68, 73, 48, 77, 68, 69, 119, 77, 84, 65, 119, 77, 68, 69, 61>>>> :>
        <<188, 87, 103, 116, 92, 196, 195, 84, 193, 4, 146, 120, 240, 246, 159, 249, 249, 238, 139, 42, 37, 118, 153, 254, 108, 194, 174, 139, 80, 55, 62, 88, 94, 88, 151, 20, 204, 227, 208, 169, 125, 51, 41, 237, 66, 108, 43, 50>>
    @@ <<<<107>>, <<89, 83, 57, 107, 90, 88, 74, 112, 100, 109, 86, 107, 76, 50, 89, 121, 77, 68, 73, 48, 77, 68, 69, 119, 77, 84, 65, 119, 77, 68, 73, 61>>>> :>
        <<242, 226, 145, 247, 54, 137, 11, 69, 181, 93, 145, 48, 19, 132, 248, 119, 132, 53, 27, 5, 174, 69, 179, 14, 205, 202, 221, 155, 249, 93, 34, 182, 66, 9, 6, 221, 4, 73, 214, 61, 221, 84, 71, 152, 139, 36, 11, 185>>
    @@ <<<<107>>, <<89, 83, 57, 107, 90, 88, 74, 112, 100, 109, 86, 107, 76, 50, 89, 121, 77, 68, 73, 48, 77, 68, 69, 119, 77, 84, 65, 119, 77, 68, 77, 61>>>> :>
        <<163, 96, 56, 207, 220, 219, 189, 156, 141, 132, 63, 197, 143, 131, 85, 157, 7, 98, 216, 131, 23, 174, 71, 76, 174, 156, 216, 56, 119, 80, 158, 109, 123, 168, 209, 228, 169, 194, 104, 196, 125, 49, 26, 119, 229, 35, 65, 102>>
    @@ <<<<107>>, <<89, 83, 57, 107, 90, 88, 74, 112, 100, 109, 86, 107, 76, 50, 89, 121, 77, 68, 73, 48, 77, 68, 69, 119, 77, 84, 65, 119, 77, 68, 81, 61>>>> :>
        <<28, 179, 249, 50, 124, 106, 67, 158, 48, 184, 238, 161, 48, 6, 11, 33, 158, 206, 182, 164, 112, 191, 29, 29, 233, 81, 14, 99, 101, 6, 209, 192, 189, 255, 203, 168, 151, 249, 172, 178, 45, 190, 128, 214, 193, 114, 62, 184>>
    @@ <<<<107>>, <<89, 83, 57, 107, 90, 88, 74, 112, 100, 109, 86, 107, 76, 50, 89, 121, 77, 68, 73, 122, 77, 84, 73, 122, 77, 84, 73, 122, 78, 84, 99, 61>>>> :>
        <<198, 183, 159, 18, 20, 53, 61, 143, 135, 146, 213, 103, 121, 203, 1, 55, 37, 57, 183, 6, 244, 34, 200, 116, 224, 103, 147, 107, 181, 198, 194, 83, 73, 242, 242, 207, 59, 42, 155, 174, 212, 200, 121, 121, 92, 5, 194, 121>>
    @@ <<<<107>>, <<89, 83, 57, 107, 90, 88, 74, 112, 100, 109, 86, 107, 76, 50, 89, 121, 77, 68, 73, 122, 77, 84, 73, 122, 77, 84, 73, 122, 78, 84, 103, 61>>>> :>
        <<103, 3, 214, 75, 90, 143, 49, 250, 99, 116, 30, 190, 134, 27, 167, 58, 33, 1, 57, 128, 152, 208, 136, 150, 33, 25, 224, 30, 249, 227, 37, 55, 40, 122, 127, 105, 28, 148, 51, 140, 241, 90, 116, 193, 181, 154, 207, 201>>
    @@ <<<<107>>, <<89, 83, 57, 107, 90, 88, 74, 112, 100, 109, 86, 107, 76, 50, 89, 121, 77, 68, 73, 122, 77, 84, 73, 122, 77, 84, 73, 122, 78, 84, 107, 61>>>> :>
        <<93, 170, 117, 185, 113, 95, 14, 155, 247, 4, 200, 144, 47, 114, 70, 44, 218, 190, 251, 244, 153, 184, 125, 97, 229, 22, 47, 79, 151, 37, 129, 161, 172, 186, 112, 112, 136, 122, 92, 125, 87, 188, 230, 157, 166, 141, 87, 23>>
    @@ <<<<107>>, <<89, 83, 57, 107, 90, 88, 74, 112, 100, 109, 86, 107, 76, 56, 79, 112, 76, 110, 65, 65>>>> :>
        <<62, 75, 21, 240, 41, 197, 222, 11, 31, 7, 63, 193, 170, 32, 193, 156, 219, 149, 179, 50, 41, 36, 127, 247, 251, 204, 17, 74, 28, 76, 135, 61, 149, 103, 50, 66, 18, 6, 57, 9, 67, 228, 185, 166, 123, 67, 216, 122>>
    @@ <<<<107>>, <<89, 83, 57, 107, 90, 88, 74, 112, 100, 109, 86, 107, 76, 56, 79, 112, 76, 110, 65, 65, 77, 65, 61>>>> :>
        <<84, 120, 9, 149, 239, 125, 105, 150, 204, 134, 112, 53, 141, 104, 165, 81, 123, 158, 51, 204, 55, 125, 228, 100, 220, 186, 12, 161, 77, 12, 6, 154, 241, 198, 167, 152, 18, 113, 227, 136, 227, 51, 75, 21, 234, 205, 104, 158>>
    @@ <<<<107>>, <<89, 83, 57, 107, 90, 88, 74, 112, 100, 109, 86, 107, 76, 56, 79, 112, 76, 110, 65, 65, 77, 65, 61, 61>>>> :>
        <<145, 187, 217, 65, 162, 233, 137, 16, 249, 51, 55, 40, 239, 160, 48, 32, 70, 4, 181, 157, 183, 199, 200, 209, 17, 131, 196, 123, 101, 87, 51, 188, 64, 123, 104, 118, 53, 227, 25, 168, 221, 250, 227, 150, 197, 8, 233, 110>>
    @@ <<<<107>>, <<89, 83, 57, 107, 90, 88, 74, 112, 100, 109, 86, 107, 76, 56, 79, 112, 76, 110, 65, 65, 77, 106, 65, 121, 77, 122, 69, 121, 77, 122, 69, 121, 77, 122, 85>>>> :>
        <<195, 227, 126, 45, 68, 41, 66, 21, 244, 115, 145, 201, 78, 101, 235, 165, 160, 27, 245, 235, 212, 67, 84, 153, 6, 65, 12, 142, 239, 6, 158, 40, 185, 154, 178, 193, 79, 84, 82, 10, 39, 119, 186, 84, 75, 210, 108, 82>>
    @@ <<<<107>>, <<89, 83, 57, 107, 90, 88, 74, 112, 100, 109, 86, 107, 76, 56, 79, 112, 76, 110, 65, 65, 77, 106, 65, 121, 77, 122, 69, 121, 77, 122, 69, 121, 77, 122, 85, 51>>>> :>
        <<161, 52, 253, 156, 139, 115, 178, 252, 205, 93, 165, 45, 110, 126, 27, 191, 77, 99, 168, 83, 109, 227, 13, 26, 72, 137, 244, 33, 31, 188, 128, 135, 28, 171, 167, 27, 181, 224, 59, 35, 208, 233, 153, 76, 207, 59, 218, 63>>
    @@ <<<<107>>, <<89, 83, 57, 107, 90, 88, 74, 112, 100, 109, 86, 107, 76, 56, 79, 112, 76, 110, 65, 65, 77, 106, 65, 121, 77, 122, 69, 121, 77, 122, 69, 121, 77, 122, 85, 52>>>> :>
        <<30, 27, 125, 74, 20, 45, 14, 222, 110, 31, 158, 222, 61, 0, 26, 38, 107, 52, 166, 235, 229, 189, 249, 114, 65, 153, 44, 158, 174, 169, 169, 6, 93, 1, 136, 183, 17, 85, 18, 11, 207, 235, 218, 44, 81, 203, 162, 250>>
    @@ <<<<107>>, <<89, 83, 57, 107, 90, 88, 74, 112, 100, 109, 86, 107, 76, 56, 79, 112, 76, 110, 65, 65, 77, 106, 65, 121, 77, 122, 69, 121, 77, 122, 69, 121, 77, 122, 85, 53>>>> :>
        <<18, 127, 94, 56, 25, 213, 186, 205, 14, 138, 52, 42, 165, 209, 88, 125, 229, 125, 126, 170, 245, 23, 228, 108, 88, 245, 65, 209, 110, 121, 99, 163, 68, 214, 163, 101, 4, 98, 247, 170, 13, 146, 46, 89, 228, 173, 21, 199>>
    @@ <<<<107>>, <<89, 83, 57, 107, 90, 88, 74, 112, 100, 109, 86, 107, 76, 56, 79, 112, 76, 110, 65, 65, 77, 106, 65, 121, 77, 122, 69, 121, 77, 122, 69, 121, 77, 122, 85, 61>>>> :>
        <<207, 110, 59, 113, 77, 245, 233, 182, 72, 192, 39, 243, 30, 158, 208, 236, 81, 3, 10, 47, 241, 169, 205, 73, 143, 59, 16, 23, 110, 144, 161, 94, 214, 72, 185, 34, 218, 181, 194, 171, 1, 48, 67, 240, 201, 63, 73, 56>>
    @@ <<<<107>>, <<89, 83, 57, 107, 90, 88, 74, 112, 100, 109, 86, 107, 76, 56, 79, 112, 76, 110, 65, 65, 77, 106, 65, 121, 78, 68, 65, 120, 77, 68, 69, 119, 77, 68, 65>>>> :>
        <<217, 116, 147, 189, 117, 183, 72, 45, 173, 189, 195, 222, 95, 238, 138, 159, 121, 60, 227, 171, 211, 78, 240, 49, 193, 27, 46, 143, 152, 226, 71, 85, 48, 159, 134, 92, 136, 2, 172, 217, 173, 252, 59, 97, 211, 64, 135, 43>>
    @@ <<<<107>>, <<89, 83, 57, 107, 90, 88, 74, 112, 100, 109, 86, 107, 76, 56, 79, 112, 76, 110, 65, 65, 77, 106, 65, 121, 78, 68, 65, 120, 77, 68, 69, 119, 77, 68, 65, 48>>>> :>
        <<186, 70, 171, 225, 163, 29, 99, 228, 95, 188, 224, 82, 245, 126, 28, 222, 96, 159, 92, 162, 71, 22, 225, 193, 101, 111, 36, 232, 145, 4, 192, 73, 110, 172, 245, 161, 183, 243, 26, 221, 158, 9, 28, 189, 9, 114, 201, 10>>
    @@ <<<<107>>, <<89, 83, 57, 107, 90, 88, 74, 112, 100, 109, 86, 107, 76, 56, 79, 112, 76, 110, 65, 65, 77, 106, 65, 121, 78, 68, 65, 120, 77, 68, 69, 119, 77, 68, 65, 61>>>> :>
        <<209, 235, 188, 87, 60, 239, 70, 36, 51, 203, 67, 196, 221, 130, 79, 115, 23, 216, 154, 6, 41, 208, 184, 103, 204, 117, 41, 209, 6, 26, 251, 143, 246, 154, 139, 19, 108, 14, 9, 56, 100, 231, 24, 237, 185, 196, 2, 118>>
    @@ <<<<107>>, <<89, 83, 57, 107, 90, 88, 74, 112, 100, 109, 86, 107, 76, 56, 79, 112, 76, 110, 65, 65, 77, 106, 65, 121, 78, 68, 65, 120, 77, 68, 69, 119, 77, 68, 65, 119>>>> :>
        <<199, 5, 137, 61, 230, 121, 48, 181, 48, 2, 23, 30, 217, 70, 28, 28, 85, 190, 228, 180, 4, 55, 56, 24, 17, 165, 6, 231, 62, 178, 195, 106, 99, 194, 163, 36, 229, 97, 235, 116, 93, 72, 214, 226, 115, 104, 99, 117>>
    @@ <<<<107>>, <<89, 83, 57, 107, 90, 88, 74, 112, 100, 109, 86, 107, 76, 56, 79, 112, 76, 110, 65, 65, 77, 106, 65, 121, 78, 68, 65, 120, 77, 68, 69, 119, 77, 68, 65, 120>>>> :>
        <<22, 67, 176, 168, 19, 113, 96, 132, 171, 212, 97, 54, 99, 27, 66, 244, 175, 72, 179, 61, 3, 61, 89, 180, 8, 83, 113, 166, 56, 66, 203, 232, 199, 147, 198, 251, 153, 218, 94, 252, 179, 228, 209, 7, 147, 85, 166, 168>>
    @@ <<<<107>>, <<89, 83, 57, 107, 90, 88, 74, 112, 100, 109, 86, 107, 76, 56, 79, 112, 76, 110, 65, 65, 77, 106, 65, 121, 78, 68, 65, 120, 77, 68, 69, 119, 77, 68, 65, 121>>>> :>
        <<55, 144, 83, 39, 1, 245, 35, 92, 151, 32, 34, 247, 251, 255, 254, 21, 87, 81, 182, 40, 222, 172, 49, 196, 189, 25, 216, 163, 203, 188, 173, 29, 98, 195, 41, 226, 142, 104, 21, 34, 239, 102, 33, 73, 115, 40, 87, 167>>
    @@ <<<<107>>, <<89, 83, 57, 107, 90, 88, 74, 112, 100, 109, 86, 107, 76, 56, 79, 112, 76, 110, 65, 65, 77, 106, 65, 121, 78, 68, 65, 120, 77, 68, 69, 119, 77, 68, 65, 122>>>> :>
        <<128, 82, 167, 187, 240, 9, 13, 37, 96, 127, 201, 178, 46, 92, 123, 22, 241, 240, 160, 33, 192, 68, 175, 225, 207, 209, 101, 214, 93, 40, 45, 226, 97, 253, 28, 236, 182, 234, 1, 55, 4, 194, 78, 129, 143, 82, 251, 93>>
    @@ <<<<107>>, <<89, 83, 57, 107, 90, 88, 74, 112, 100, 109, 86, 107, 76, 56, 79, 112, 76, 110, 65, 119>>>> :>
        <<199, 172, 249, 88, 214, 47, 104, 59, 243, 33, 108, 181, 78, 160, 33, 132, 95, 62, 186, 147, 140, 132, 249, 50, 232, 162, 228, 54, 196, 227, 74, 166, 34, 124, 194, 253, 239, 219, 148, 26, 50, 60, 79, 117, 163, 119, 185, 11>>
    @@ <<<<107>>, <<89, 83, 57, 107, 90, 88, 74, 112, 100, 109, 86, 107, 76, 56, 79, 112, 76, 110, 65, 121, 77, 68, 73, 48, 77, 68, 69, 119, 77, 84, 65, 119, 77, 68, 65, 61>>>> :>
        <<32, 193, 62, 4, 114, 6, 43, 104, 148, 170, 100, 120, 166, 12, 123, 133, 164, 140, 160, 224, 171, 123, 2, 217, 179, 97, 66, 92, 224, 172, 9, 252, 124, 9, 28, 2, 167, 163, 132, 130, 56, 180, 243, 38, 30, 181, 221, 0>>
    @@ <<<<107>>, <<89, 83, 57, 107, 90, 88, 74, 112, 100, 109, 86, 107, 76, 56, 79, 112, 76, 110, 65, 121, 77, 68, 73, 48, 77, 68, 69, 119, 77, 84, 65, 119, 77, 68, 69, 61>>>> :>
        <<153, 126, 28, 88, 10, 181, 115, 229, 131, 184, 22, 102, 46, 66, 139, 149, 129, 254, 245, 140, 214, 105, 180, 127, 33, 10, 77, 147, 98, 80, 87, 135, 201, 25, 249, 240, 31, 8, 184, 141, 87, 94, 120, 91, 201, 216, 154, 205>>
    @@ <<<<107>>, <<89, 83, 57, 107, 90, 88, 74, 112, 100, 109, 86, 107, 76, 56, 79, 112, 76, 110, 65, 121, 77, 68, 73, 48, 77, 68, 69, 119, 77, 84, 65, 119, 77, 68, 73, 61>>>> :>
        <<46, 117, 11, 180, 193, 122, 113, 32, 138, 160, 110, 194, 65, 194, 95, 169, 106, 108, 46, 152, 1, 205, 131, 47, 45, 13, 223, 121, 41, 115, 182, 75, 64, 115, 25, 22, 141, 131, 190, 7, 113, 39, 145, 116, 8, 233, 5, 96>>
    @@ <<<<107>>, <<89, 83, 57, 107, 90, 88, 74, 112, 100, 109, 86, 107, 76, 56, 79, 112, 76, 110, 65, 121, 77, 68, 73, 48, 77, 68, 69, 119, 77, 84, 65, 119, 77, 68, 77, 61>>>> :>
        <<26, 239, 17, 152, 103, 194, 144, 29, 16, 242, 30, 239, 34, 215, 147, 120, 21, 187, 132, 126, 25, 158, 237, 74, 70, 46, 56, 237, 32, 214, 225, 83, 104, 148, 16, 236, 226, 110, 194, 205, 219, 90, 77, 252, 220, 44, 33, 19>>
    @@ <<<<107>>, <<89, 83, 57, 107, 90, 88, 74, 112, 100, 109, 86, 107, 76, 56, 79, 112, 76, 110, 65, 121, 77, 68, 73, 48, 77, 68, 69, 119, 77, 84, 65, 119, 77, 68, 81, 61>>>> :>
        <<65, 194, 54, 43, 118, 148, 195, 66, 200, 18, 80, 128, 201, 149, 249, 175, 108, 222, 243, 161, 129, 100, 174, 52, 184, 111, 235, 149, 218, 235, 203, 166, 94, 230, 94, 151, 118, 111, 84, 109, 180, 15, 248, 200, 217, 2, 169, 245>>
    @@ <<<<107>>, <<89, 83, 57, 107, 90, 88, 74, 112, 100, 109, 86, 107, 76, 56, 79, 112, 76, 110, 65, 121, 77, 68, 73, 122, 77, 84, 73, 122, 77, 84, 73, 122, 78, 84, 99, 61>>>> :>
        <<176, 105, 49, 49, 96, 22, 134, 84, 7, 212, 129, 249, 6, 66, 88, 170, 25, 155, 217, 213, 201, 130, 166, 230, 192, 231, 192, 243, 200, 168, 247, 16, 83, 108, 193, 175, 144, 54, 255, 228, 28, 242, 145, 246, 228, 50, 1, 12>>
    @@ <<<<107>>, <<89, 83, 57, 107, 90, 88, 74, 112, 100, 109, 86, 107, 76, 56, 79, 112, 76, 110, 65, 121, 77, 68, 73, 122, 77, 84, 73, 122, 77, 84, 73, 122, 78, 84, 103, 61>>>> :>
        <<115, 30, 140, 151, 54, 91, 111, 53, 219, 205, 233, 115, 235, 168, 134, 73, 108, 224, 49, 11, 128, 33, 167, 242, 90, 164, 159, 84, 91, 172, 198, 206, 25, 237, 94, 122, 4, 251, 186, 235, 82, 118, 121, 83, 222, 3, 152, 49>>
    @@ <<<<107>>, <<89, 83, 57, 107, 90, 88, 74, 112, 100, 109, 86, 107, 76, 56, 79, 112, 76, 110, 65, 121, 77, 68, 73, 122, 77, 84, 73, 122, 77, 84, 73, 122, 78, 84, 107, 61>>>> :>
        <<95, 117, 170, 240, 246, 238, 170, 9, 226, 69, 116, 225, 235, 149, 224, 28, 19, 60, 200, 45, 152, 199, 238, 204, 196, 80, 69, 159, 186, 141, 106, 64, 39, 84, 37, 29, 240, 36, 240, 173, 42, 149, 28, 136, 84, 117, 172, 118>>
    @@ <<<<107>>, <<89, 83, 57, 122, 98, 51, 86, 121, 89, 50, 85, 118, 90, 103, 65>>>> :>
        <<54, 190, 98, 193, 86, 38, 253, 167, 133, 225, 117, 14, 227, 54, 32, 101, 53, 134, 218, 219, 118, 77, 92, 27, 195, 50, 149, 206, 253, 224, 113, 193, 146, 218, 68, 99, 29, 11, 221, 16, 222, 57, 197, 232, 54, 41, 106, 137>>
    @@ <<<<107>>, <<89, 83, 57, 122, 98, 51, 86, 121, 89, 50, 85, 118, 90, 103, 65, 61>>>> :>
        <<128, 123, 153, 44, 140, 246, 216, 240, 5, 4, 45, 248, 114, 170, 73, 81, 136, 28, 192, 40, 10, 171, 26, 228, 65, 77, 174, 31, 75, 151, 83, 215, 3, 221, 83, 141, 23, 151, 195, 162, 187, 13, 202, 208, 8, 135, 254, 41>>
    @@ <<<<107>>, <<89, 83, 57, 122, 98, 51, 86, 121, 89, 50, 85, 118, 90, 103, 65, 119>>>> :>
        <<2, 135, 105, 171, 10, 98, 218, 99, 243, 13, 113, 19, 70, 109, 43, 74, 220, 33, 42, 193, 149, 240, 10, 85, 69, 176, 109, 176, 3, 47, 98, 142, 13, 165, 150, 53, 119, 38, 15, 177, 140, 72, 28, 128, 67, 241, 132, 187>>
    @@ <<<<107>>, <<89, 83, 57, 122, 98, 51, 86, 121, 89, 50, 85, 118, 90, 103, 65, 121, 77, 68, 73, 48, 77, 68, 69, 119, 77, 84, 65, 119, 77, 65, 61, 61>>>> :>
        <<48, 255, 45, 154, 145, 156, 202, 126, 39, 131, 128, 70, 242, 148, 79, 113, 238, 114, 248, 224, 146, 194, 78, 240, 63, 103, 160, 214, 234, 25, 156, 179, 216, 83, 186, 207, 162, 134, 116, 52, 53, 135, 195, 229, 26, 195, 193, 204>>
    @@ <<<<107>>, <<89, 83, 57, 122, 98, 51, 86, 121, 89, 50, 85, 118, 90, 103, 65, 121, 77, 68, 73, 48, 77, 68, 69, 119, 77, 84, 65, 119, 77, 68, 65>>>> :>
        <<179, 17, 220, 134, 193, 47, 71, 226, 3, 53, 234, 154, 128, 164, 177, 80, 104, 47, 127, 68, 101, 95, 215, 85, 246, 41, 172, 156, 172, 236, 180, 191, 182, 108, 144, 63, 206, 50, 135, 17, 214, 204, 185, 33, 179, 223, 224, 222>>
    @@ <<<<107>>, <<89, 83, 57, 122, 98, 51, 86, 121, 89, 50, 85, 118, 90, 103, 65, 121, 77, 68, 73, 48, 77, 68, 69, 119, 77, 84, 65, 119, 77, 68, 65, 61>>>> :>
        <<6, 238, 3, 212, 255, 241, 53, 230, 161, 139, 37, 155, 205, 61, 69, 168, 201, 88, 166, 4, 170, 182, 199, 61, 19, 153, 21, 33, 53, 140, 224, 129, 234, 186, 37, 108, 105, 158, 216, 112, 150, 217, 146, 136, 229, 48, 224, 159>>
    @@ <<<<107>>, <<89, 83, 57, 122, 98, 51, 86, 121, 89, 50, 85, 118, 90, 103, 65, 121, 77, 68, 73, 48, 77, 68, 69, 119, 77, 84, 65, 119, 77, 68, 69>>>> :>
        <<74, 209, 113, 43, 205, 173, 157, 2, 9, 55, 79, 36, 44, 149, 176, 62, 160, 79, 206, 42, 174, 225, 59, 228, 155, 39, 79, 184, 76, 1, 187, 197, 58, 164, 100, 194, 26, 224, 154, 148, 136, 237, 143, 53, 52, 239, 25, 97>>
    @@ <<<<107>>, <<89, 83, 57, 122, 98, 51, 86, 121, 89, 50, 85, 118, 90, 103, 65, 121, 77, 68, 73, 48, 77, 68, 69, 119, 77, 84, 65, 119, 77, 68, 69, 61>>>> :>
        <<25, 163, 52, 174, 139, 1, 249, 221, 35, 185, 60, 183, 190, 70, 128, 74, 241, 240, 189, 178, 65, 186, 218, 22, 209, 132, 1, 202, 218, 81, 102, 41, 167, 161, 173, 101, 46, 4, 205, 94, 169, 182, 32, 20, 35, 121, 125, 209>>
    @@ <<<<107>>, <<89, 83, 57, 122, 98, 51, 86, 121, 89, 50, 85, 118, 90, 103, 65, 121, 77, 68, 73, 48, 77, 68, 69, 119, 77, 84, 65, 119, 77, 68, 73>>>> :>
        <<47, 107, 17, 44, 136, 86, 186, 192, 35, 64, 243, 179, 33, 212, 138, 218, 101, 186, 89, 65, 115, 26, 53, 57, 77, 227, 127, 24, 165, 58, 218, 220, 78, 209, 147, 229, 108, 147, 46, 31, 171, 99, 250, 46, 230, 246, 225, 205>>
    @@ <<<<107>>, <<89, 83, 57, 122, 98, 51, 86, 121, 89, 50, 85, 118, 90, 103, 65, 121, 77, 68, 73, 48, 77, 68, 69, 119, 77, 84, 65, 119, 77, 68, 73, 61>>>> :>
        <<190, 22, 124, 188, 204, 42, 53, 138, 218, 136, 225, 182, 164, 142, 199, 57, 12, 217, 184, 134, 237, 151, 132, 94, 32, 26, 49, 80, 198, 225, 118, 165, 201, 67, 44, 211, 206, 157, 16, 107, 206, 69, 155, 33, 246, 187, 30, 238>>
    @@ <<<<107>>, <<89, 83, 57, 122, 98, 51, 86, 121, 89, 50, 85, 118, 90, 103, 65, 121, 77, 68, 73, 48, 77, 68, 69, 119, 77, 84, 65, 119, 77, 68, 77>>>> :>
        <<25, 171, 63, 58, 121, 125, 159, 105, 98, 63, 48, 60, 190, 21, 217, 252, 100, 68, 170, 97, 126, 54, 206, 55, 47, 199, 116, 205, 141, 25, 193, 245, 163, 173, 162, 16, 103, 52, 1, 78, 186, 219, 182, 81, 237, 79, 237, 225>>
    @@ <<<<107>>, <<89, 83, 57, 122, 98, 51, 86, 121, 89, 50, 85, 118, 90, 103, 65, 121, 77, 68, 73, 48, 77, 68, 69, 119, 77, 84, 65, 119, 77, 68, 77, 61>>>> :>
        <<86, 172, 143, 116, 54, 220, 127, 191, 159, 24, 195, 7, 240, 12, 181, 174, 57, 211, 20, 210, 169, 142, 101, 242, 233, 46, 227, 243, 90, 98, 18, 59, 219, 172, 188, 76, 94, 62, 19, 132, 166, 247, 245, 245, 20, 177, 42, 174>>
    @@ <<<<107>>, <<89, 83, 57, 122, 98, 51, 86, 121, 89, 50, 85, 118, 90, 103, 65, 121, 77, 68, 73, 48, 77, 68, 69, 119, 77, 84, 65, 119, 77, 68, 81>>>> :>
        <<251, 188, 78, 40, 191, 99, 208, 199, 36, 187, 244, 11, 206, 220, 25, 147, 214, 229, 114, 159, 145, 60, 85, 207, 221, 32, 115, 178, 207, 248, 39, 67, 119, 225, 95, 155, 71, 103, 67, 219, 48, 5, 137, 64, 184, 74, 198, 166>>
    @@ <<<<107>>, <<89, 83, 57, 122, 98, 51, 86, 121, 89, 50, 85, 118, 90, 103, 65, 121, 77, 68, 73, 48, 77, 68, 69, 119, 77, 84, 65, 119, 77, 68, 81, 61>>>> :>
        <<35, 105, 71, 148, 73, 149, 253, 137, 78, 228, 204, 195, 112, 72, 34, 244, 86, 239, 226, 8, 128, 149, 86, 192, 189, 245, 148, 54, 7, 228, 204, 94, 211, 234, 42, 2, 173, 73, 208, 109, 241, 242, 81, 133, 126, 169, 193, 254>>
    @@ <<<<107>>, <<89, 83, 57, 122, 98, 51, 86, 121, 89, 50, 85, 118, 90, 103, 65, 121, 77, 68, 73, 122, 77, 84, 73, 122, 77, 84, 73, 122, 78, 81, 61, 61>>>> :>
        <<238, 210, 172, 110, 43, 36, 152, 102, 63, 100, 102, 7, 148, 41, 165, 64, 4, 107, 135, 15, 88, 184, 124, 122, 187, 112, 49, 59, 106, 218, 90, 163, 84, 231, 28, 105, 92, 87, 82, 249, 82, 132, 149, 5, 98, 185, 164, 121>>
    @@ <<<<107>>, <<89, 83, 57, 122, 98, 51, 86, 121, 89, 50, 85, 118, 90, 103, 65, 121, 77, 68, 73, 122, 77, 84, 73, 122, 77, 84, 73, 122, 78, 84, 99>>>> :>
        <<238, 136, 107, 141, 168, 42, 16, 104, 28, 155, 251, 54, 236, 220, 210, 225, 20, 14, 38, 194, 171, 53, 80, 173, 32, 23, 114, 44, 57, 24, 25, 237, 223, 223, 221, 67, 91, 47, 170, 36, 205, 76, 228, 28, 101, 240, 63, 26>>
    @@ <<<<107>>, <<89, 83, 57, 122, 98, 51, 86, 121, 89, 50, 85, 118, 90, 103, 65, 121, 77, 68, 73, 122, 77, 84, 73, 122, 77, 84, 73, 122, 78, 84, 99, 61>>>> :>
        <<217, 249, 34, 75, 102, 84, 169, 198, 162, 105, 210, 110, 83, 84, 122, 228, 189, 251, 16, 62, 208, 118, 1, 224, 177, 242, 179, 245, 202, 214, 204, 253, 34, 186, 51, 23, 121, 240, 99, 85, 199, 178, 242, 79, 212, 243, 110, 88>>
    @@ <<<<107>>, <<89, 83, 57, 122, 98, 51, 86, 121, 89, 50, 85, 118, 90, 103, 65, 121, 77, 68, 73, 122, 77, 84, 73, 122, 77, 84, 73, 122, 78, 84, 103>>>> :>
        <<11, 238, 11, 180, 169, 55, 167, 233, 184, 45, 144, 26, 76, 56, 114, 25, 131, 14, 144, 25, 123, 138, 105, 160, 193, 60, 115, 36, 70, 183, 46, 219, 111, 190, 104, 81, 96, 165, 51, 228, 128, 76, 1, 117, 184, 248, 37, 198>>
    @@ <<<<107>>, <<89, 83, 57, 122, 98, 51, 86, 121, 89, 50, 85, 118, 90, 103, 65, 121, 77, 68, 73, 122, 77, 84, 73, 122, 77, 84, 73, 122, 78, 84, 103, 61>>>> :>
        <<0, 71, 185, 186, 23, 33, 166, 222, 176, 20, 149, 55, 33, 207, 239, 181, 151, 249, 253, 31, 1, 216, 128, 109, 1, 196, 157, 202, 157, 221, 142, 158, 1, 167, 9, 81, 115, 115, 185, 94, 250, 135, 167, 103, 64, 3, 50, 136>>
    @@ <<<<107>>, <<89, 83, 57, 122, 98, 51, 86, 121, 89, 50, 85, 118, 90, 103, 65, 121, 77, 68, 73, 122, 77, 84, 73, 122, 77, 84, 73, 122, 78, 84, 107>>>> :>
        <<0, 243, 249, 56, 186, 132, 33, 78, 60, 128, 206, 37, 43, 148, 134, 255, 231, 51, 14, 124, 252, 107, 233, 65, 232, 85, 104, 71, 167, 136, 205, 8, 18, 241, 33, 1, 105, 16, 231, 178, 25, 252, 0, 154, 215, 155, 35, 179>>
    @@ <<<<107>>, <<89, 83, 57, 122, 98, 51, 86, 121, 89, 50, 85, 118, 90, 103, 65, 121, 77, 68, 73, 122, 77, 84, 73, 122, 77, 84, 73, 122, 78, 84, 107, 61>>>> :>
        <<6, 75, 77, 139, 239, 168, 232, 194, 244, 244, 251, 225, 24, 116, 226, 240, 222, 175, 138, 214, 187, 235, 5, 244, 36, 23, 131, 94, 175, 195, 151, 192, 148, 40, 33, 177, 73, 206, 58, 29, 144, 234, 71, 222, 230, 28, 41, 232>>
    @@ <<<<107>>, <<89, 83, 57, 122, 98, 51, 86, 121, 89, 50, 85, 118, 90, 106, 65, 61>>>> :>
        <<8, 213, 24, 226, 149, 75, 59, 171, 192, 7, 56, 69, 44, 83, 54, 37, 242, 167, 141, 197, 95, 169, 231, 225, 183, 13, 19, 250, 106, 76, 250, 17, 57, 168, 158, 78, 188, 95, 239, 199, 90, 97, 218, 12, 212, 90, 15, 242>>
    @@ <<<<107>>, <<89, 83, 57, 122, 98, 51, 86, 121, 89, 50, 85, 118, 90, 106, 73, 119, 77, 106, 77, 120, 77, 106, 77, 120, 77, 106, 77, 49, 78, 119, 61, 61>>>> :>
        <<76, 148, 208, 107, 148, 111, 54, 46, 63, 56, 143, 93, 249, 146, 32, 187, 70, 146, 125, 99, 139, 227, 122, 56, 25, 133, 241, 35, 136, 7, 65, 227, 49, 35, 165, 246, 124, 84, 201, 145, 111, 216, 30, 243, 45, 179, 58, 160>>
    @@ <<<<107>>, <<89, 83, 57, 122, 98, 51, 86, 121, 89, 50, 85, 118, 90, 106, 73, 119, 77, 106, 77, 120, 77, 106, 77, 120, 77, 106, 77, 49, 79, 65, 61, 61>>>> :>
        <<34, 156, 127, 65, 210, 120, 104, 130, 166, 148, 182, 61, 100, 200, 187, 14, 239, 223, 225, 234, 81, 46, 30, 146, 231, 124, 49, 122, 242, 34, 213, 153, 211, 10, 156, 106, 83, 240, 88, 100, 219, 109, 140, 201, 86, 15, 121, 106>>
    @@ <<<<107>>, <<89, 83, 57, 122, 98, 51, 86, 121, 89, 50, 85, 118, 90, 106, 73, 119, 77, 106, 77, 120, 77, 106, 77, 120, 77, 106, 77, 49, 79, 81, 61, 61>>>> :>
        <<94, 169, 47, 132, 47, 234, 245, 102, 184, 255, 13, 236, 236, 155, 227, 118, 227, 182, 236, 23, 113, 227, 88, 194, 115, 5, 117, 87, 126, 212, 205, 139, 118, 183, 127, 80, 58, 116, 39, 8, 173, 200, 176, 221, 153, 180, 119, 135>>
    @@ <<<<107>>, <<89, 83, 57, 122, 98, 51, 86, 121, 89, 50, 85, 118, 90, 106, 73, 119, 77, 106, 81, 119, 77, 84, 65, 120, 77, 68, 65, 119, 77, 65, 61, 61>>>> :>
        <<100, 30, 147, 151, 231, 219, 145, 47, 23, 166, 67, 200, 106, 5, 135, 94, 189, 194, 204, 106, 231, 182, 127, 90, 3, 73, 140, 88, 206, 5, 215, 172, 31, 77, 75, 173, 104, 127, 11, 51, 139, 211, 135, 7, 238, 59, 220, 129>>
    @@ <<<<107>>, <<89, 83, 57, 122, 98, 51, 86, 121, 89, 50, 85, 118, 90, 106, 73, 119, 77, 106, 81, 119, 77, 84, 65, 120, 77, 68, 65, 119, 77, 81, 61, 61>>>> :>
        <<69, 107, 78, 145, 28, 118, 155, 109, 170, 222, 135, 37, 200, 100, 209, 233, 19, 211, 200, 41, 234, 47, 76, 126, 140, 178, 190, 235, 34, 109, 0, 217, 43, 108, 100, 182, 37, 10, 60, 228, 236, 30, 136, 243, 233, 221, 235, 118>>
    @@ <<<<107>>, <<89, 83, 57, 122, 98, 51, 86, 121, 89, 50, 85, 118, 90, 106, 73, 119, 77, 106, 81, 119, 77, 84, 65, 120, 77, 68, 65, 119, 77, 103, 61, 61>>>> :>
        <<118, 83, 72, 249, 150, 108, 86, 50, 218, 6, 129, 133, 144, 76, 45, 100, 39, 14, 78, 130, 4, 117, 85, 123, 3, 52, 59, 101, 54, 73, 244, 69, 133, 164, 177, 99, 178, 198, 47, 148, 56, 139, 86, 35, 121, 246, 145, 56>>
    @@ <<<<107>>, <<89, 83, 57, 122, 98, 51, 86, 121, 89, 50, 85, 118, 90, 106, 73, 119, 77, 106, 81, 119, 77, 84, 65, 120, 77, 68, 65, 119, 77, 119, 61, 61>>>> :>
        <<25, 137, 152, 125, 219, 41, 173, 175, 175, 74, 136, 136, 3, 216, 75, 129, 4, 15, 72, 54, 255, 130, 7, 80, 252, 241, 185, 45, 136, 151, 24, 170, 171, 50, 6, 196, 89, 24, 103, 187, 173, 60, 146, 30, 61, 90, 242, 248>>
    @@ <<<<107>>, <<89, 83, 57, 122, 98, 51, 86, 121, 89, 50, 85, 118, 90, 106, 73, 119, 77, 106, 81, 119, 77, 84, 65, 120, 77, 68, 65, 119, 78, 65, 61, 61>>>> :>
        <<114, 176, 146, 45, 153, 214, 48, 88, 122, 198, 212, 67, 208, 235, 172, 140, 83, 53, 172, 55, 168, 114, 216, 60, 29, 241, 172, 11, 194, 5, 78, 4, 190, 22, 67, 230, 176, 100, 137, 3, 208, 200, 224, 147, 129, 140, 248, 235>>
    @@ <<<<107>>, <<89, 83, 57, 122, 98, 51, 86, 121, 89, 50, 85, 118, 119, 54, 107, 117, 99, 65, 65>>>> :>
        <<247, 77, 43, 129, 76, 164, 94, 26, 172, 248, 170, 228, 149, 14, 185, 234, 133, 128, 199, 42, 244, 59, 249, 202, 248, 222, 127, 65, 104, 23, 164, 162, 232, 218, 181, 14, 130, 75, 95, 157, 158, 19, 238, 197, 174, 97, 28, 101>>
    @@ <<<<107>>, <<89, 83, 57, 122, 98, 51, 86, 121, 89, 50, 85, 118, 119, 54, 107, 117, 99, 65, 65, 61>>>> :>
        <<255, 38, 234, 199, 200, 151, 14, 32, 109, 5, 140, 238, 87, 205, 246, 6, 154, 76, 165, 33, 89, 252, 15, 159, 228, 84, 136, 44, 99, 148, 37, 249, 88, 165, 214, 224, 95, 55, 33, 148, 41, 189, 74, 33, 177, 157, 54, 235>>
    @@ <<<<107>>, <<89, 83, 57, 122, 98, 51, 86, 121, 89, 50, 85, 118, 119, 54, 107, 117, 99, 65, 65, 119>>>> :>
        <<206, 92, 159, 53, 215, 91, 100, 250, 179, 8, 232, 127, 105, 207, 235, 70, 129, 192, 8, 238, 85, 107, 147, 65, 176, 158, 146, 178, 138, 108, 193, 116, 172, 152, 0, 129, 253, 74, 251, 106, 210, 62, 182, 14, 121, 26, 54, 32>>
    @@ <<<<107>>, <<89, 83, 57, 122, 98, 51, 86, 121, 89, 50, 85, 118, 119, 54, 107, 117, 99, 65, 65, 121, 77, 68, 73, 48, 77, 68, 69, 119, 77, 84, 65, 119, 77, 65, 61, 61>>>> :>
        <<12, 169, 144, 91, 90, 188, 68, 155, 128, 194, 184, 104, 144, 205, 12, 25, 253, 150, 88, 123, 86, 48, 158, 219, 16, 219, 85, 54, 57, 204, 56, 8, 97, 187, 96, 79, 222, 126, 104, 215, 7, 134, 148, 59, 94, 110, 32, 100>>
    @@ <<<<107>>, <<89, 83, 57, 122, 98, 51, 86, 121, 89, 50, 85, 118, 119, 54, 107, 117, 99, 65, 65, 121, 77, 68, 73, 48, 77, 68, 69, 119, 77, 84, 65, 119, 77, 68, 65>>>> :>
        <<127, 222, 62, 200, 113, 226, 28, 250, 8, 91, 227, 37, 110, 24, 94, 179, 201, 65, 225, 219, 148, 229, 158, 28, 159, 86, 16, 20, 204, 224, 183, 55, 138, 148, 158, 155, 175, 116, 234, 28, 140, 124, 40, 82, 232, 239, 134, 30>>
    @@ <<<<107>>, <<89, 83, 57, 122, 98, 51, 86, 121, 89, 50, 85, 118, 119, 54, 107, 117, 99, 65, 65, 121, 77, 68, 73, 48, 77, 68, 69, 119, 77, 84, 65, 119, 77, 68, 65, 61>>>> :>
        <<221, 213, 172, 175, 250, 58, 212, 3, 2, 239, 89, 222, 251, 242, 249, 251, 201, 201, 168, 96, 233, 175, 217, 66, 43, 47, 209, 145, 97, 30, 219, 30, 215, 60, 169, 247, 105, 140, 129, 70, 140, 34, 23, 240, 83, 120, 4, 13>>
    @@ <<<<107>>, <<89, 83, 57, 122, 98, 51, 86, 121, 89, 50, 85, 118, 119, 54, 107, 117, 99, 65, 65, 121, 77, 68, 73, 48, 77, 68, 69, 119, 77, 84, 65, 119, 77, 68, 69>>>> :>
        <<56, 10, 37, 176, 42, 171, 138, 114, 252, 206, 240, 179, 199, 17, 12, 42, 252, 51, 154, 55, 220, 162, 109, 226, 214, 216, 138, 24, 160, 175, 237, 171, 193, 249, 73, 66, 82, 128, 47, 85, 181, 208, 102, 217, 141, 230, 131, 153>>
    @@ <<<<107>>, <<89, 83, 57, 122, 98, 51, 86, 121, 89, 50, 85, 118, 119, 54, 107, 117, 99, 65, 65, 121, 77, 68, 73, 48, 77, 68, 69, 119, 77, 84, 65, 119, 77, 68, 69, 61>>>> :>
        <<193, 7, 98, 125, 91, 29, 201, 103, 56, 121, 58, 245, 13, 119, 91, 132, 206, 169, 173, 225, 119, 125, 227, 134, 60, 219, 198, 222, 112, 148, 134, 41, 81, 14, 200, 44, 232, 204, 224, 58, 215, 190, 93, 85, 248, 43, 62, 228>>
    @@ <<<<107>>, <<89, 83, 57, 122, 98, 51, 86, 121, 89, 50, 85, 118, 119, 54, 107, 117, 99, 65, 65, 121, 77, 68, 73, 48, 77, 68, 69, 119, 77, 84, 65, 119, 77, 68, 73>>>> :>
        <<73, 224, 119, 45, 203, 94, 178, 203, 87, 97, 34, 192, 202, 224, 169, 178, 96, 66, 233, 199, 2, 68, 51, 104, 135, 16, 17, 166, 136, 127, 134, 35, 33, 81, 96, 171, 227, 241, 146, 238, 226, 230, 95, 225, 94, 129, 101, 15>>
    @@ <<<<107>>, <<89, 83, 57, 122, 98, 51, 86, 121, 89, 50, 85, 118, 119, 54, 107, 117, 99, 65, 65, 121, 77, 68, 73, 48, 77, 68, 69, 119, 77, 84, 65, 119, 77, 68, 73, 61>>>> :>
        <<38, 17, 185, 144, 50, 218, 167, 132, 74, 149, 175, 169, 201, 213, 38, 50, 245, 200, 172, 52, 246, 109, 88, 187, 98, 30, 113, 138, 82, 131, 103, 183, 115, 146, 197, 190, 154, 104, 179, 32, 196, 164, 208, 174, 80, 97, 241, 126>>
    @@ <<<<107>>, <<89, 83, 57, 122, 98, 51, 86, 121, 89, 50, 85, 118, 119, 54, 107, 117, 99, 65, 65, 121, 77, 68, 73, 48, 77, 68, 69, 119, 77, 84, 65, 119, 77, 68, 77>>>> :>
        <<34, 218, 152, 252, 32, 180, 236, 168, 6, 222, 232, 188, 90, 186, 254, 76, 19, 235, 185, 48, 129, 172, 25, 201, 211, 121, 41, 171, 167, 53, 217, 49, 177, 244, 209, 120, 125, 165, 240, 91, 70, 129, 226, 247, 129, 3, 213, 178>>
    @@ <<<<107>>, <<89, 83, 57, 122, 98, 51, 86, 121, 89, 50, 85, 118, 119, 54, 107, 117, 99, 65, 65, 121, 77, 68, 73, 48, 77, 68, 69, 119, 77, 84, 65, 119, 77, 68, 77, 61>>>> :>
        <<61, 116, 1, 125, 254, 130, 124, 132, 120, 20, 55, 209, 184, 90, 98, 98, 46, 104, 62, 198, 61, 209, 59, 212, 167, 28, 160, 12, 246, 11, 56, 204, 2, 63, 176, 246, 83, 112, 90, 16, 68, 245, 249, 164, 52, 248, 89, 144>>
    @@ <<<<107>>, <<89, 83, 57, 122, 98, 51, 86, 121, 89, 50, 85, 118, 119, 54, 107, 117, 99, 65, 65, 121, 77, 68, 73, 48, 77, 68, 69, 119, 77, 84, 65, 119, 77, 68, 81>>>> :>
        <<233, 31, 170, 62, 206, 75, 26, 33, 37, 173, 35, 140, 129, 132, 17, 255, 162, 65, 6, 135, 255, 227, 55, 159, 211, 103, 94, 83, 127, 76, 194, 27, 179, 211, 20, 104, 222, 22, 30, 18, 151, 38, 170, 243, 234, 31, 57, 124>>
    @@ <<<<107>>, <<89, 83, 57, 122, 98, 51, 86, 121, 89, 50, 85, 118, 119, 54, 107, 117, 99, 65, 65, 121, 77, 68, 73, 48, 77, 68, 69, 119, 77, 84, 65, 119, 77, 68, 81, 61>>>> :>
        <<92, 183, 147, 129, 92, 148, 63, 171, 247, 209, 241, 14, 114, 242, 248, 68, 241, 131, 130, 197, 218, 231, 185, 53, 186, 195, 5, 87, 118, 250, 72, 168, 66, 255, 123, 250, 159, 155, 208, 236, 34, 90, 112, 218, 221, 25, 17, 60>>
    @@ <<<<107>>, <<89, 83, 57, 122, 98, 51, 86, 121, 89, 50, 85, 118, 119, 54, 107, 117, 99, 65, 65, 121, 77, 68, 73, 122, 77, 84, 73, 122, 77, 84, 73, 122, 78, 81, 61, 61>>>> :>
        <<56, 14, 24, 141, 228, 20, 238, 237, 226, 148, 209, 19, 65, 122, 60, 183, 4, 216, 119, 73, 62, 43, 139, 28, 170, 173, 145, 161, 99, 213, 116, 68, 42, 224, 50, 128, 37, 252, 73, 192, 249, 40, 38, 13, 31, 158, 48, 209>>
    @@ <<<<107>>, <<89, 83, 57, 122, 98, 51, 86, 121, 89, 50, 85, 118, 119, 54, 107, 117, 99, 65, 65, 121, 77, 68, 73, 122, 77, 84, 73, 122, 77, 84, 73, 122, 78, 84, 99>>>> :>
        <<242, 157, 189, 143, 10, 255, 150, 124, 240, 45, 160, 130, 208, 118, 221, 214, 174, 50, 176, 143, 156, 138, 26, 89, 213, 99, 174, 55, 231, 113, 206, 255, 162, 13, 155, 89, 198, 223, 64, 65, 103, 53, 243, 129, 46, 234, 157, 141>>
    @@ <<<<107>>, <<89, 83, 57, 122, 98, 51, 86, 121, 89, 50, 85, 118, 119, 54, 107, 117, 99, 65, 65, 121, 77, 68, 73, 122, 77, 84, 73, 122, 77, 84, 73, 122, 78, 84, 99, 61>>>> :>
        <<11, 190, 150, 71, 73, 33, 254, 253, 160, 59, 192, 165, 133, 234, 58, 193, 70, 251, 96, 216, 8, 21, 167, 42, 37, 255, 95, 24, 254, 106, 64, 119, 161, 145, 21, 78, 88, 12, 171, 226, 237, 60, 18, 188, 96, 23, 26, 170>>
    @@ <<<<107>>, <<89, 83, 57, 122, 98, 51, 86, 121, 89, 50, 85, 118, 119, 54, 107, 117, 99, 65, 65, 121, 77, 68, 73, 122, 77, 84, 73, 122, 77, 84, 73, 122, 78, 84, 103>>>> :>
        <<243, 22, 3, 182, 154, 7, 148, 107, 51, 114, 134, 167, 173, 76, 24, 168, 107, 98, 88, 131, 75, 184, 27, 243, 239, 177, 117, 34, 126, 60, 246, 177, 201, 104, 165, 123, 52, 222, 149, 76, 173, 216, 194, 137, 189, 102, 239, 167>>
    @@ <<<<107>>, <<89, 83, 57, 122, 98, 51, 86, 121, 89, 50, 85, 118, 119, 54, 107, 117, 99, 65, 65, 121, 77, 68, 73, 122, 77, 84, 73, 122, 77, 84, 73, 122, 78, 84, 103, 61>>>> :>
        <<41, 67, 165, 6, 168, 246, 17, 132, 191, 170, 158, 25, 131, 154, 216, 115, 199, 204, 95, 90, 145, 158, 115, 183, 74, 248, 59, 134, 185, 130, 162, 165, 254, 233, 117, 201, 243, 36, 163, 163, 150, 8, 15, 18, 134, 23, 168, 181>>
    @@ <<<<107>>, <<89, 83, 57, 122, 98, 51, 86, 121, 89, 50, 85, 118, 119, 54, 107, 117, 99, 65, 65, 121, 77, 68, 73, 122, 77, 84, 73, 122, 77, 84, 73, 122, 78, 84, 107>>>> :>
        <<81, 203, 56, 94, 60, 102, 172, 43, 194, 93, 115, 16, 161, 131, 14, 128, 215, 90, 61, 159, 79, 248, 139, 5, 93, 9, 157, 133, 96, 39, 123, 113, 131, 16, 8, 175, 249, 66, 165, 58, 191, 0, 237, 131, 107, 39, 95, 115>>
    @@ <<<<107>>, <<89, 83, 57, 122, 98, 51, 86, 121, 89, 50, 85, 118, 119, 54, 107, 117, 99, 65, 65, 121, 77, 68, 73, 122, 77, 84, 73, 122, 77, 84, 73, 122, 78, 84, 107, 61>>>> :>
        <<121, 232, 205, 88, 9, 63, 8, 159, 242, 125, 137, 54, 130, 47, 72, 170, 135, 113, 165, 2, 239, 73, 243, 147, 223, 222, 122, 60, 38, 205, 60, 213, 255, 162, 148, 223, 63, 23, 209, 167, 255, 85, 210, 160, 106, 22, 233, 95>>
    @@ <<<<107>>, <<89, 83, 57, 122, 98, 51, 86, 121, 89, 50, 85, 118, 119, 54, 107, 117, 99, 68, 65, 61>>>> :>
        <<31, 76, 29, 13, 186, 22, 154, 97, 147, 191, 170, 140, 156, 8, 133, 7, 203, 197, 109, 77, 140, 35, 182, 64, 59, 114, 21, 224, 52, 196, 57, 205, 33, 68, 117, 172, 13, 202, 214, 14, 44, 159, 190, 82, 254, 174, 165, 45>>
    @@ <<<<107>>, <<89, 83, 57, 122, 98, 51, 86, 121, 89, 50, 85, 118, 119, 54, 107, 117, 99, 68, 73, 119, 77, 106, 77, 120, 77, 106, 77, 120, 77, 106, 77, 49, 78, 119, 61, 61>>>> :>
        <<22, 233, 106, 56, 34, 184, 208, 18, 72, 212, 70, 75, 17, 193, 121, 138, 167, 226, 105, 88, 191, 198, 128, 57, 22, 35, 53, 207, 192, 140, 106, 117, 130, 38, 184, 216, 136, 16, 231, 243, 220, 45, 10, 130, 192, 192, 245, 255>>
    @@ <<<<107>>, <<89, 83, 57, 122, 98, 51, 86, 121, 89, 50, 85, 118, 119, 54, 107, 117, 99, 68, 73, 119, 77, 106, 77, 120, 77, 106, 77, 120, 77, 106, 77, 49, 79, 65, 61, 61>>>> :>
        <<148, 62, 250, 130, 74, 105, 242, 215, 169, 89, 171, 224, 54, 33, 185, 190, 143, 213, 208, 196, 237, 239, 144, 3, 171, 9, 221, 69, 98, 185, 17, 221, 80, 231, 183, 110, 175, 171, 59, 115, 202, 74, 63, 199, 157, 129, 202, 53>>
    @@ <<<<107>>, <<89, 83, 57, 122, 98, 51, 86, 121, 89, 50, 85, 118, 119, 54, 107, 117, 99, 68, 73, 119, 77, 106, 77, 120, 77, 106, 77, 120, 77, 106, 77, 49, 79, 81, 61, 61>>>> :>
        <<44, 104, 61, 57, 32, 8, 244, 132, 6, 143, 156, 51, 144, 147, 166, 134, 238, 0, 27, 253, 73, 137, 23, 252, 101, 198, 202, 104, 137, 217, 55, 254, 54, 187, 245, 240, 31, 105, 79, 58, 86, 230, 30, 211, 195, 157, 57, 204>>
    @@ <<<<107>>, <<89, 83, 57, 122, 98, 51, 86, 121, 89, 50, 85, 118, 119, 54, 107, 117, 99, 68, 73, 119, 77, 106, 81, 119, 77, 84, 65, 120, 77, 68, 65, 119, 77, 65, 61, 61>>>> :>
        <<153, 194, 169, 135, 27, 203, 137, 215, 165, 98, 199, 209, 111, 244, 159, 88, 75, 70, 35, 61, 160, 181, 133, 240, 55, 6, 145, 167, 102, 169, 7, 246, 182, 156, 114, 154, 75, 42, 25, 215, 135, 65, 191, 40, 148, 146, 234, 214>>
    @@ <<<<107>>, <<89, 83, 57, 122, 98, 51, 86, 121, 89, 50, 85, 118, 119, 54, 107, 117, 99, 68, 73, 119, 77, 106, 81, 119, 77, 84, 65, 120, 77, 68, 65, 119, 77, 81, 61, 61>>>> :>
        <<227, 248, 55, 144, 72, 171, 142, 228, 244, 148, 7, 71, 145, 145, 158, 38, 124, 225, 123, 108, 112, 126, 61, 75, 149, 118, 227, 254, 155, 206, 249, 226, 1, 93, 207, 105, 103, 96, 97, 83, 182, 239, 49, 172, 246, 203, 181, 101>>
    @@ <<<<107>>, <<89, 83, 57, 122, 98, 51, 86, 121, 89, 50, 85, 118, 119, 54, 107, 117, 99, 68, 73, 119, 77, 106, 81, 119, 77, 84, 65, 120, 77, 68, 65, 119, 77, 103, 61, 61>>>> :>
        <<190, 148, 92, 36, 27, 4, 94, 106, 78, 93, 26, 67, 193, 23, 248, 78, 223, 192, 210, 104, 161, 212, 234, 243, 225, 151, 25, 251, 45, 185, 124, 51, 245, 135, 214, 241, 153, 169, 205, 123, 238, 170, 4, 126, 188, 255, 88, 254>>
    @@ <<<<107>>, <<89, 83, 57, 122, 98, 51, 86, 121, 89, 50, 85, 118, 119, 54, 107, 117, 99, 68, 73, 119, 77, 106, 81, 119, 77, 84, 65, 120, 77, 68, 65, 119, 77, 119, 61, 61>>>> :>
        <<177, 201, 112, 245, 44, 65, 175, 75, 58, 214, 245, 212, 157, 179, 152, 12, 128, 39, 38, 130, 184, 100, 106, 249, 172, 100, 74, 30, 45, 111, 49, 23, 43, 7, 52, 172, 192, 43, 112, 199, 163, 70, 189, 128, 132, 124, 219, 242>>
    @@ <<<<107>>, <<89, 83, 57, 122, 98, 51, 86, 121, 89, 50, 85, 118, 119, 54, 107, 117, 99, 68, 73, 119, 77, 106, 81, 119, 77, 84, 65, 120, 77, 68, 65, 119, 78, 65, 61, 61>>>> :>
        <<182, 176, 130, 16, 222, 156, 96, 237, 41, 104, 77, 95, 13, 161, 218, 2, 172, 195, 159, 10, 138, 18, 101, 46, 231, 237, 245, 100, 204, 232, 28, 96, 67, 130, 156, 243, 3, 183, 199, 10, 81, 127, 188, 67, 117, 72, 0, 70>>
    @@ <<<<107>>, <<97>>>> :>
        <<130, 108, 90, 227, 251, 58, 168, 230, 226, 33, 237, 80, 89, 173, 242, 176, 119, 91, 56, 35, 99, 64, 181, 14, 126, 218, 225, 30, 171, 25, 132, 73, 229, 165, 110, 32, 81, 173, 225, 81, 107, 162, 37, 106, 232, 76, 164, 158>>
    @@ <<<<107>>, <<195, 169>>>> :>
        <<59, 161, 203, 34, 91, 98, 218, 99, 123, 153, 60, 191, 21, 61, 216, 175, 192, 227, 234, 31, 209, 41, 119, 184, 190, 19, 165, 173, 209, 133, 161, 121, 9, 44, 136, 216, 165, 240, 2, 228, 108, 140, 101, 188, 36, 152, 201, 132>>

HexChar(d) == IF d < 10 THEN 48 + d ELSE 97 + (d - 10)

\* bytes.hex(): two lower-case hex digits per byte
Hex(b) ==
    [i \in 1..(2 * Len(b)) |->
        IF i % 2 = 1 THEN HexChar(b[(i + 1) \div 2] \div 16)
        ELSE HexChar(b[i \div 2] % 16)]

hexdigest(key, msg) ==
    IF <<key, msg>> \in DOMAIN Digests THEN Hex(Digests[<<key, msg>>])
    ELSE Hex(hmac_digest(key, msg))

IsAscii(s) == \A i \in 1..Len(s) : s[i] < 128

\* hmac.compare_digest(a, b): both str (ASCII only) or both bytes, else TypeError
compare_digest(a, b) ==
    IF a.t = "str" /\ b.t = "str"
    THEN IF IsAscii(a.v) /\ IsAscii(b.v) THEN Return(PyBool(a.v = b.v))
         ELSE Raise("TypeError")
    ELSE IF a.t = "bytes" /\ b.t = "bytes" THEN Return(PyBool(a.v = b.v))
    ELSE Raise("TypeError")

\* hmacSign(data) under conf["viur.file.hmacKey"] = key
hmacSign(key, data) ==
    IF key.t = "NoneType" THEN Raise("AssertionError")
    ELSE LET msg == IF data.t = "bytes" THEN data.v ELSE Utf8Encode(StrOf(data))
         IN  Return(PyStr(hexdigest(key.v, msg)))

\* variant: the signature is computed but never compared
hmacVerify_uncompared(key, data, signature) ==
    LET expected == hmacSign(key, data)
    IN  IF expected.exc # "" THEN expected ELSE Return(PyTrue)

\* hmacVerify(data, signature)
hmacVerify(key, data, signature) ==
    LET expected == hmacSign(key, data)
    IN  IF expected.exc # "" THEN expected
        ELSE compare_digest(expected.val, signature)

----------------------------------------------------------------------------
(* downloadUrlFor *)

DerivedDir == <<47, 100, 101, 114, 105, 118, 101, 100, 47>>      \* "/derived/"

SourceDir == <<47, 115, 111, 117, 114, 99, 101, 47>>             \* "/source/"

DownloadRoute ==                                                  \* "/file/download/"
    <<47, 102, 105, 108, 101, 47, 100, 111, 119, 110, 108, 111, 97, 100, 47>>

SigParam == <<63, 115, 105, 103, 61>>                             \* "?sig="

FilePath(folder, fileName, derived) ==
    IF derived THEN folder \o DerivedDir \o fileName
    ELSE folder \o SourceDir \o fileName

\* variant: the time to live is subtracted from the clock
ExpiryStamp_subtracts(t, expires) ==
    IF Truthy(expires) THEN strftime(t - expires.v[1]) ELSE StrOf(PyInt(0))

\* the second %s of sigStr: strftime of now + expires when expires is truthy, else 0
ExpiryStamp(t, expires) ==
    IF Truthy(expires) THEN strftime(t + expires.v[1]) ELSE StrOf(PyInt(0))

\* variant: signs the payload before it is base64url-encoded
downloadUrlFor_signsPayload(key, t, folder, fileName, derived, expires) ==
    LET filePath == FilePath(folder, fileName, derived)
        payload  == Utf8Encode(filePath \o <<0>> \o ExpiryStamp(t, expires))
        resstr   == hmacSign(key, PyBytes(payload))
    IN  IF resstr.exc # "" THEN resstr
        ELSE Return(PyStr(DownloadRoute \o urlsafe_b64encode(payload) \o SigParam
                          \o resstr.val.v))

downloadUrlFor(key, t, folder, fileName, derived, expires) ==
    LET filePath == FilePath(folder, fileName, derived)
        sigStr   == urlsafe_b64encode(
                        Utf8Encode(filePath \o <<0>> \o ExpiryStamp(t, expires)))
        resstr   == hmacSign(key, PyBytes(sigStr))
    IN  IF resstr.exc # "" THEN resstr
        ELSE Return(PyStr(DownloadRoute \o sigStr \o SigParam \o resstr.val.v))

----------------------------------------------------------------------------
(* verifyDownloadURL: the download route's check of a presented token *)

\* position of the first occurrence of code point c in s, 0 when absent
RECURSIVE IndexOf(_, _, _)
IndexOf(s, c, i) ==
    IF i > Len(s) THEN 0 ELSE IF s[i] = c THEN i ELSE IndexOf(s, c, i + 1)

Count(s, c) == Cardinality({i \in 1..Len(s) : s[i] = c})

\* the (encodedPath, sig) pair a client reads off "/file/download/<path>?sig=<sig>"
ParseUrl(url) ==
    LET q == IndexOf(url, 63, 1)
    IN  [encodedPath |-> SubSeq(url, Len(DownloadRoute) + 1, q - 1),
         sig         |-> SubSeq(url, q + Len(SigParam), Len(url))]

\* the decoded payload of an encodedPath: filePath and expiry stamp
DecodePath(encodedPath) ==
    LET raw  == urlsafe_b64decode(encodedPath)
        text == IF raw = Malformed THEN Malformed ELSE Utf8Decode(raw)
        nul  == IF text = Malformed THEN 0 ELSE IndexOf(text, 0, 1)
    IN  IF text = Malformed \/ Count(text, 0) # 1
        THEN [ok |-> FALSE, filePath |-> <<>>, stamp |-> <<>>]
        ELSE [ok |-> TRUE, filePath |-> SubSeq(text, 1, nul - 1),
              stamp |-> SubSeq(text, nul + 1, Len(text))]

Invalid == [exc |-> "", valid |-> FALSE, filePath |-> PyNone]

verifyDownloadURL(key, t, encodedPath, signature) ==
    LET v == hmacVerify(key, PyStr(encodedPath), signature)
        d == DecodePath(encodedPath)
        e == strptime(d.stamp)
    IN  IF v.exc # "" THEN [exc |-> v.exc, valid |-> FALSE, filePath |-> PyNone]
        ELSE IF v.val # PyTrue THEN Invalid
        ELSE IF ~d.ok THEN Invalid
        ELSE IF d.stamp = <<48>> \/ (e.ok /\ MinuteOf(t) <= e.minute)
        THEN [exc |-> "", valid |-> TRUE, filePath |-> PyStr(d.filePath)]
        ELSE Invalid

----------------------------------------------------------------------------
(* Inputs and bounds *)

\* the clock is read at its start and after each of at most this many ticks
MaxTicks == 3

\* 2023-12-31 23:59:00
StartTimes == {-60}

TickSteps == {30}

Keys == {PyNone, PyBytes(<<>>), PyBytes(<<107>>)}

\* the keys under which download URLs are issued and presented
UrlKeys == {PyNone, PyBytes(<<107>>)}

Folders == {<<97>>}

FileNames == {<<102>>, <<233, 46, 112>>}

Expiries == {PyNone, PyTimedelta(-60), PyTimedelta(0), PyTimedelta(45), PyTimedelta(60)}

Datas == {PyBytes(<<97>>), PyBytes(<<>>), PyStr(<<97>>), PyStr(<<233>>), PyInt(7)}

NoToken ==
    [called |-> FALSE, folder |-> <<>>, fileName |-> <<>>, derived |-> FALSE,
     expires |-> PyNone, at |-> 0, result |-> Return(PyNone)]

NoCheck ==
    [called |-> FALSE, encodedPath |-> <<>>, signature |-> PyNone, at |-> 0,
     result |-> Invalid]

NoSigned ==
    [op |-> "none", data |-> PyNone, signature |-> PyNone, result |-> Return(PyNone)]

Issued(tk) == tk.called /\ tk.result.exc = ""

\* a signature with its first hex digit changed
Flip(sig) == IF sig = <<>> THEN <<48>> ELSE <<(IF sig[1] = 48 THEN 49 ELSE 48)>> \o Tail(sig)

\* what a client may present: the issued token, and altered copies of it
PresentedPaths ==
    IF ~Issued(token) THEN {<<65, 65, 65, 65>>}
    ELSE LET ep   == ParseUrl(token.result.val.v).encodedPath
             text == Utf8Decode(urlsafe_b64decode(ep))
         IN  {ep,
              SubSeq(ep, 1, Len(ep) - 1),
              urlsafe_b64encode(Utf8Encode(SelectSeq(text, LAMBDA c : c # 0))),
              urlsafe_b64encode(Utf8Encode(SubSeq(text, 1, Len(text) - 1)))}

\* with the issued path: its signature, that signature with a digit changed,
\* and a signature outside ASCII; with an altered path: the signature a
\* holder of the key would compute for it
PresentedSignatures(encodedPath) ==
    IF hmacKey.t = "NoneType" THEN {PyStr(<<233>>), PyStr(<<48, 48, 48, 48>>)}
    ELSE IF Issued(token) /\ encodedPath # ParseUrl(token.result.val.v).encodedPath
    THEN {PyStr(hexdigest(hmacKey.v, encodedPath))}
    ELSE {PyStr(hexdigest(hmacKey.v, encodedPath)),
          PyStr(Flip(hexdigest(hmacKey.v, encodedPath))),
          PyStr(<<233>>)}

SignaturesFor(data) ==
    {PyStr(<<>>), PyStr(<<233>>), PyStr(<<48, 233>>)} \cup
    UNION {LET good == hmacSign(k, data).val.v
           IN  {PyStr(good), PyStr(Flip(good)), PyStr(Tail(good))}
           : k \in Keys \ {PyNone}}

----------------------------------------------------------------------------
(* markFileForDeletion *)

\* requests that may run markFileForDeletion side by side
Requests == {1, 2}

DlKeys == {<<120>>, <<121>>}

\* no call starts once this many markers are stored or about to be stored
MaxEntities == 3

Idle == [pc |-> "idle", dlkey |-> <<>>, outcome |-> ""]

\* db.Query("viur-deleted-files").filter("dlkey", dlkey).getEntry()
getEntry(store, dlkey) == {e \in store : e.dlkey = dlkey}

\* db.Put of a fresh entity with itercount 0 and the dlkey as a string
PutMarker(store, id, dlkey) ==
    store \cup {[id |-> id, dlkey |-> StrOf(PyStr(dlkey)), itercount |-> 0]}

----------------------------------------------------------------------------
(* sendEMail *)

Callable == [t |-> "function", v |-> <<>>]

\* what the configured email handler returns
HandlerReturn == PyStr(<<111, 107>>)

normalizeToList(value) ==
    IF value.t = "NoneType" THEN <<>>
    ELSE IF value.t = "list" THEN value.v
    ELSE <<value>>

\* s.replace(c, r) for a single character c
RECURSIVE Replace(_, _, _)
Replace(s, c, r) ==
    IF s = <<>> THEN <<>>
    ELSE (IF Head(s) = c THEN r ELSE <<Head(s)>>) \o Replace(Tail(s), c, r)

DotWord == <<95, 100, 111, 116, 95>>        \* "_dot_"

AtWord == <<95, 97, 116, 95>>               \* "_at_"

\* oldDest.replace(".", "_dot_").replace("@", "_at_") + newDest
Rewritten(oldDest, newDest) ==
    PyStr(Replace(Replace(oldDest.v, 46, DotWord), 64, AtWord) \o newDest.v)

StartsWithAt(x) == Len(x.v) > 0 /\ x.v[1] = 64

\* the loop over one override entry
RewriteFor(newDest, oldDests) ==
    IF StartsWithAt(newDest)
    THEN [i \in 1..Len(oldDests) |-> Rewritten(oldDests[i], newDest)]
    ELSE <<newDest>>

RECURSIVE OverrideDests(_, _)
OverrideDests(newDests, oldDests) ==
    IF newDests = <<>> THEN <<>>
    ELSE RewriteFor(Head(newDests), oldDests) \o OverrideDests(Tail(newDests), oldDests)

\* not (bool(file) ^ bool(template))
FileXorTemplateMissing(file, template) == Truthy(file) = Truthy(template)

\* variant: the emptiness of the override is tested instead of its identity
SendingDisabled_none(o) == o = PyNone

\* conf["viur.emailRecipientOverride"] is False
SendingDisabled(o) == o = PyFalse

\* the outcome of sendEMail: the result, and the calls made to the renderer
\* and to the handler with the recipients each call was given (sender,
\* replyTo, header and attachments are passed through and are left out)
Outcome(result, rendered, handed) ==
    [result |-> result, rendered |-> rendered, handed |-> handed]

sendEMail(o, h, dests, file, template, cc, bcc) ==
    LET oldDests == normalizeToList(dests)
        ccList   == normalizeToList(cc)
        bccList  == normalizeToList(bcc)
        newDests == normalizeToList(o)
        isText   == \A i \in 1..Len(newDests) : newDests[i].t = "str"
        sentTo   == IF Truthy(o) THEN OverrideDests(newDests, oldDests) ELSE oldDests
    IN  IF FileXorTemplateMissing(file, template)
        THEN Outcome(Raise("ValueError"), <<>>, <<>>)
        ELSE IF Truthy(o) /\ ~isText
        THEN Outcome(Raise("AttributeError"), <<>>, <<>>)
        ELSE IF ~Truthy(o) /\ SendingDisabled(o)
        THEN Outcome(Return(PyFalse), <<>>, <<>>)
        ELSE IF h.t = "NoneType" \/ h # Callable
        THEN Outcome(Raise("InvalidConfigException"), <<>>, <<>>)
        ELSE Outcome(Return(HandlerReturn),
                     <<[dests |-> sentTo]>>,
                     <<[dests |-> sentTo, cc |-> ccList, bcc |-> bccList]>>)

NoMail ==
    [called |-> FALSE, dests |-> PyNone, file |-> PyNone, template |-> PyNone,
     cc |-> PyNone, bcc |-> PyNone, outcome |-> Outcome(Return(PyNone), <<>>, <<>>)]

----------------------------------------------------------------------------
(* The parts of the state a specification leaves alone *)

PinnedFiles ==
    /\ entities = {}
    /\ nextId = 1
    /\ calls = [p \in Requests |-> Idle]

PinnedMail ==
    /\ override = PyNone
    /\ handler = PyNone
    /\ mail = NoMail

PinnedUrl ==
    /\ hmacKey = PyNone
    /\ now = 0
    /\ token = NoToken
    /\ again = NoToken
    /\ check = NoCheck
    /\ signed = NoSigned

----------------------------------------------------------------------------
(* State machine: signed download URLs *)

InitUrl ==
    /\ hmacKey \in UrlKeys
    /\ now \in StartTimes
    /\ token = NoToken
    /\ again = NoToken
    /\ check = NoCheck
    /\ signed = NoSigned
    /\ PinnedFiles
    /\ PinnedMail

\* wall-clock time passes
Tick ==
    /\ \E d \in TickSteps :
          /\ \A s \in StartTimes : now + d <= s + MaxTicks * d
          /\ now' = now + d
    /\ UNCHANGED <<hmacKey, token, again, check, signed, fileVars, mailVars>>

DownloadUrlFor ==
    /\ \E folder \in Folders, fileName \in FileNames, derived \in BOOLEAN,
          expires \in Expiries :
          token' = [called |-> TRUE, folder |-> folder, fileName |-> fileName,
                    derived |-> derived, expires |-> expires, at |-> now,
                    result |-> downloadUrlFor(hmacKey, now, folder, fileName,
                                              derived, expires)]
    /\ again' = NoToken
    /\ check' = NoCheck
    /\ UNCHANGED <<hmacKey, now, signed, fileVars, mailVars>>

\* the same call once more, with the inputs of the most recent one
RepeatDownloadUrlFor ==
    /\ token.called
    /\ again' = [token EXCEPT !.at = now,
                               !.result = downloadUrlFor(hmacKey, now, token.folder,
                                              token.fileName, token.derived,
                                              token.expires)]
    /\ UNCHANGED <<hmacKey, now, token, check, signed, fileVars, mailVars>>

VerifyDownloadURL ==
    /\ \E encodedPath \in PresentedPaths :
       \E signature \in PresentedSignatures(encodedPath) :
          check' = [called |-> TRUE, encodedPath |-> encodedPath,
                    signature |-> signature, at |-> now,
                    result |-> verifyDownloadURL(hmacKey, now, encodedPath, signature)]
    /\ UNCHANGED <<hmacKey, now, token, again, signed, fileVars, mailVars>>

\* issuing tokens and presenting them to the download route
NextUrl == Tick \/ DownloadUrlFor \/ VerifyDownloadURL

SpecUrl == InitUrl /\ [][NextUrl]_vars

\* issuing tokens and asking for the same token again
NextReissue == Tick \/ DownloadUrlFor \/ RepeatDownloadUrlFor

SpecReissue == InitUrl /\ [][NextReissue]_vars

----------------------------------------------------------------------------
(* State machine: direct calls of hmacSign and hmacVerify *)

InitHmac ==
    /\ hmacKey \in Keys
    /\ now = 0
    /\ token = NoToken
    /\ again = NoToken
    /\ check = NoCheck
    /\ signed = NoSigned
    /\ PinnedFiles
    /\ PinnedMail

HmacSign ==
    /\ \E data \in Datas :
          signed' = [op |-> "hmacSign", data |-> data, signature |-> PyNone,
                     result |-> hmacSign(hmacKey, data)]
    /\ UNCHANGED <<urlVars, fileVars, mailVars>>

HmacVerify ==
    /\ \E data \in Datas :
       \E signature \in SignaturesFor(data) :
          signed' = [op |-> "hmacVerify", data |-> data, signature |-> signature,
                     result |-> hmacVerify(hmacKey, data, signature)]
    /\ UNCHANGED <<urlVars, fileVars, mailVars>>

NextHmac == HmacSign \/ HmacVerify

SpecHmac == InitHmac /\ [][NextHmac]_vars

----------------------------------------------------------------------------
(* Properties of the signed download URLs *)

\* the token the latest downloadUrlFor call returned, as a client presents it
TokenPath == ParseUrl(token.result.val.v).encodedPath

TokenSig == ParseUrl(token.result.val.v).sig

\* a <= b for two strings of digits of equal length
RECURSIVE DigitsLeq(_, _)
DigitsLeq(a, b) ==
    IF a = <<>> THEN TRUE
    ELSE IF Head(a) # Head(b) THEN Head(a) < Head(b)
    ELSE DigitsLeq(Tail(a), Tail(b))

\* the stamp is "0", or a YYYYMMDDHHMM stamp not before the minute of time t
StampAdmits(stamp, t) ==
    \/ stamp = <<48>>
    \/ Len(stamp) = 12 /\ IsDigits(stamp) /\ DigitsLeq(strftime(t), stamp)

\* the check was made on the token of the latest downloadUrlFor call
CheckOfToken ==
    /\ Issued(token)
    /\ check.called
    /\ check.encodedPath = TokenPath
    /\ check.signature = PyStr(TokenSig)

Accepted == check.result.exc = "" /\ check.result.valid

\* C1: a presented token (encodedPath, signature) is accepted exactly when
\* the signature is the HMAC of encodedPath under the configured key and the
\* decoded expiry stamp is "0" or not before the current minute.
C1_ValidIffSignedAndUnexpired ==
    check.called =>
        (Accepted <=>
            /\ hmacKey.t # "NoneType"
            /\ check.signature = PyStr(hexdigest(hmacKey.v, check.encodedPath))
            /\ DecodePath(check.encodedPath).ok
            /\ StampAdmits(DecodePath(check.encodedPath).stamp, check.at))

\* a token accepted in its expiry minute, later than it was issued
C1_Witness ==
    /\ CheckOfToken
    /\ Accepted
    /\ check.at > token.at
    /\ DecodePath(check.encodedPath).stamp = strftime(check.at)

\* C2: the expiry stamp is the sentinel 0 only for a null ttl; for every
\* other ttl, zero and negative included, it is strftime of now + ttl.
C2_SentinelOnlyForNullTtl ==
    Issued(token) =>
        DecodePath(TokenPath).stamp =
            IF token.expires = PyNone THEN <<48>>
            ELSE strftime(token.at + token.expires.v[1])

\* C5 as stated: for any ttl, the token verifies at the moment of issuance
\* and decodes to the path that was signed.
C5_RoundTripAnyTtl ==
    (CheckOfToken /\ check.at = token.at) =>
        /\ Accepted
        /\ check.result.filePath =
               PyStr(token.folder
                     \o (IF token.derived THEN DerivedDir ELSE SourceDir)
                     \o token.fileName)

\* C5: for a null or non-negative ttl, the token verifies at the moment of
\* issuance and decodes to the path that was signed.
C5_RoundTripNonNegativeTtl ==
    (/\ CheckOfToken
     /\ check.at = token.at
     /\ (token.expires = PyNone \/ token.expires.v[1] >= 0)) =>
        /\ Accepted
        /\ check.result.filePath =
               PyStr(token.folder
                     \o (IF token.derived THEN DerivedDir ELSE SourceDir)
                     \o token.fileName)

\* a token with a positive ttl, verified in the second it was issued
C5_Witness ==
    /\ CheckOfToken
    /\ check.at = token.at
    /\ token.expires = PyTimedelta(45)
    /\ token.fileName = <<233, 46, 112>>
    /\ Accepted

\* C6 as stated: two calls with identical inputs in the same wall-clock
\* minute return the same URL.
C6_SameMinuteSameUrl ==
    (Issued(token) /\ again.called /\ MinuteOf(again.at) = MinuteOf(token.at)) =>
        again.result = token.result

\* C6: two calls with identical inputs in the same wall-clock minute return
\* the same URL when the ttl is null or a whole number of minutes.
C6_SameMinuteSameUrlWholeMinutes ==
    (/\ Issued(token)
     /\ again.called
     /\ MinuteOf(again.at) = MinuteOf(token.at)
     /\ (token.expires = PyNone \/ token.expires.v[1] % 60 = 0)) =>
        again.result = token.result

\* the same call made twice, at two different seconds of one minute
C6_Witness ==
    /\ Issued(token)
    /\ again.called
    /\ again.at # token.at
    /\ MinuteOf(again.at) = MinuteOf(token.at)
    /\ token.expires = PyTimedelta(60)

\* C7: the URL is /file/download/{encodedPath}?sig={signature}; encodedPath
\* is the base64url encoding of filePath NUL stamp, filePath is
\* {folder}/derived/{fileName} or {folder}/source/{fileName}, and signature
\* is the HMAC of encodedPath.
C7_UrlForm ==
    Issued(token) =>
        LET url == token.result.val.v
            raw == urlsafe_b64decode(TokenPath)
            d   == DecodePath(TokenPath)
        IN  /\ token.result.val.t = "str"
            /\ url = DownloadRoute \o TokenPath \o SigParam \o TokenSig
            /\ raw # Malformed
            /\ urlsafe_b64encode(raw) = TokenPath
            /\ d.ok
            /\ d.filePath = token.folder
                            \o (IF token.derived THEN DerivedDir ELSE SourceDir)
                            \o token.fileName
            /\ TokenSig = hexdigest(hmacKey.v, TokenPath)

\* a URL issued for a derived file with a name outside ASCII
C7_Witness ==
    /\ Issued(token)
    /\ token.derived
    /\ token.fileName = <<233, 46, 112>>
    /\ token.expires = PyTimedelta(60)

----------------------------------------------------------------------------
(* Properties of hmacSign and hmacVerify *)

\* C3: signing fails with a configuration error whenever the key is missing
\* or empty, and yields a signature only under a non-empty key.
C3_NoSignatureWithoutKey ==
    signed.op # "none" =>
        IF Truthy(hmacKey) THEN signed.result.exc # "AssertionError"
        ELSE signed.result.exc = "AssertionError"

\* C4: under a configured key hmacVerify returns a boolean for every data
\* and signature, True exactly when the signature equals hmacSign(data).
C4_VerifyAlwaysBoolean ==
    (signed.op = "hmacVerify" /\ Truthy(hmacKey)) =>
        /\ signed.result.exc = ""
        /\ signed.result.val \in {PyTrue, PyFalse}
        /\ (signed.result.val = PyTrue
              <=> signed.signature = hmacSign(hmacKey, signed.data).val)

----------------------------------------------------------------------------
(* State machine: markFileForDeletion, called by concurrent requests *)

\* a marker the deletion task has already visited twice
OldMarker == [id |-> 1, dlkey |-> <<120>>, itercount |-> 2]

InitFiles ==
    /\ entities \in {{}, {OldMarker}}
    /\ nextId = Cardinality(entities) + 1
    /\ calls = [p \in Requests |-> Idle]
    /\ PinnedUrl
    /\ PinnedMail

Pending == {p \in Requests : calls[p].pc = "put"}

\* the query finds a marker: the call returns
QueryMarked(p) ==
    /\ calls[p].pc = "idle"
    /\ \E dlkey \in DlKeys :
          /\ getEntry(entities, dlkey) # {}
          /\ calls' = [calls EXCEPT ![p] =
                          [pc |-> "idle", dlkey |-> dlkey, outcome |-> "marked"]]
    /\ UNCHANGED <<entities, nextId, urlVars, signed, mailVars>>

\* the query finds nothing: the call goes on to build and store a marker
QueryUnmarked(p) ==
    /\ calls[p].pc = "idle"
    /\ Cardinality(entities) + Cardinality(Pending) < MaxEntities
    /\ \E dlkey \in DlKeys :
          /\ getEntry(entities, dlkey) = {}
          /\ calls' = [calls EXCEPT ![p] =
                          [pc |-> "put", dlkey |-> dlkey, outcome |-> ""]]
    /\ UNCHANGED <<entities, nextId, urlVars, signed, mailVars>>

Put(p) ==
    /\ calls[p].pc = "put"
    /\ entities' = PutMarker(entities, nextId, calls[p].dlkey)
    /\ nextId' = nextId + 1
    /\ calls' = [calls EXCEPT ![p] =
                    [pc |-> "idle", dlkey |-> calls[p].dlkey, outcome |-> "stored"]]
    /\ UNCHANGED <<urlVars, signed, mailVars>>

NextFiles == \E p \in Requests : QueryMarked(p) \/ QueryUnmarked(p) \/ Put(p)

SpecFiles == InitFiles /\ [][NextFiles]_vars

\* C8: the kind holds at most one marker per dlkey, also when calls for the
\* same dlkey interleave between the query and the Put; a call for a marked
\* dlkey writes nothing, and a new marker has itercount 0.
C8_OneMarkerPerDlkey ==
    /\ \A e1, e2 \in entities : e1.dlkey = e2.dlkey => e1 = e2
    /\ \A e \in entities : e = OldMarker \/ e.itercount = 0

----------------------------------------------------------------------------
(* State machine: sendEMail *)

Overrides ==
    {PyNone, PyFalse, PyTrue, PyStr(<<>>), PyStr(<<111, 64, 111>>), PyStr(<<64, 120>>),
     PyList(<<PyStr(<<111, 64, 111>>), PyStr(<<64, 120>>)>>)}

Handlers == {PyNone, PyStr(<<104>>), Callable}

Dests ==
    {PyStr(<<97, 64, 98, 46, 99>>),
     PyList(<<PyStr(<<97, 64, 98, 46, 99>>), PyStr(<<100, 64, 101>>)>>)}

Copies == {PyNone, PyStr(<<99, 64, 99>>)}

BlindCopies == {PyNone, PyList(<<PyStr(<<98, 64, 98>>)>>)}

Templates == {PyNone, PyStr(<<>>), PyStr(<<116>>)}

InitMail ==
    /\ override \in Overrides
    /\ handler \in Handlers
    /\ mail = NoMail
    /\ PinnedUrl
    /\ PinnedFiles

SendEMail ==
    /\ \E dests \in Dests, file \in Templates, template \in Templates,
          cc \in Copies, bcc \in BlindCopies :
          mail' = [called |-> TRUE, dests |-> dests, file |-> file,
                   template |-> template, cc |-> cc, bcc |-> bcc,
                   outcome |-> sendEMail(override, handler, dests, file, template,
                                         cc, bcc)]
    /\ UNCHANGED <<override, handler, urlVars, signed, fileVars>>

NextMail == SendEMail

SpecMail == InitMail /\ [][NextMail]_vars

\* the addresses the caller passed in dests, cc and bcc
Originals ==
    {normalizeToList(mail.dests)[i] : i \in 1..Len(normalizeToList(mail.dests))}
    \cup {normalizeToList(mail.cc)[i] : i \in 1..Len(normalizeToList(mail.cc))}
    \cup {normalizeToList(mail.bcc)[i] : i \in 1..Len(normalizeToList(mail.bcc))}

\* an address the override yields: an override entry as it stands, or an
\* original destination rewritten in front of an "@..." entry
OverrideDerived(a) ==
    \E i \in 1..Len(normalizeToList(override)) :
        LET newDest == normalizeToList(override)[i]
        IN  IF newDest.v[1] = 64
            THEN \E j \in 1..Len(normalizeToList(mail.dests)) :
                    a = PyStr(Replace(Replace(normalizeToList(mail.dests)[j].v,
                                              46, <<95, 100, 111, 116, 95>>),
                                      64, <<95, 97, 116, 95>>) \o newDest.v)
            ELSE a = newDest

Recipients(m) ==
    {m.dests[i] : i \in 1..Len(m.dests)}
    \cup {m.cc[i] : i \in 1..Len(m.cc)}
    \cup {m.bcc[i] : i \in 1..Len(m.bcc)}

\* C9: with a non-empty recipient override every mail handed to the handler
\* is addressed only to override-derived recipients, and no address passed
\* in dests, cc or bcc reaches the handler unmodified.
C9_OnlyOverrideRecipients ==
    (mail.called /\ Truthy(override)) =>
        \A i \in 1..Len(mail.outcome.handed) :
            /\ \A a \in Recipients(mail.outcome.handed[i]) : OverrideDerived(a)
            /\ Recipients(mail.outcome.handed[i]) \cap Originals = {}

\* C10: with the override exactly False and exactly one of file/template
\* given, sendEMail returns False and calls neither renderer nor handler;
\* with neither or both given it raises ValueError before any such call.
C10_DisabledOrInvalidNeverSends ==
    mail.called =>
        /\ (Truthy(mail.file) = Truthy(mail.template)) =>
               mail.outcome = Outcome(Raise("ValueError"), <<>>, <<>>)
        /\ (Truthy(mail.file) # Truthy(mail.template) /\ override = PyFalse) =>
               mail.outcome = Outcome(Return(PyFalse), <<>>, <<>>)

\* sending disabled, a handler configured, a template given
C10_Witness ==
    /\ mail.called
    /\ override = PyFalse
    /\ handler = Callable
    /\ mail.file = PyNone
    /\ mail.template = PyStr(<<116>>)
    /\ mail.outcome.result = Return(PyFalse)

====
